---- MODULE Spec2Model ----
(***************************************************************************)
(* Cascade (override) resolution of the theming framework: path            *)
(* computation, single-resource resolution and catalog scans over a        *)
(* filesystem that the user edits between calls.                           *)
(*                                                                         *)
(* A string is modelled by what the code does with it.  A path is a        *)
(* sequence of segments; a segment is a sequence of tokens, so that        *)
(* "site.js" is <<"site", ".js">> and endsWith('.js'), `${name}.js` and     *)
(* basename(f, '.js') are computed, not assumed.  An absolute path starts  *)
(* with the root segment <<"/">>.                                          *)
(***************************************************************************)
EXTENDS Naturals, Sequences, FiniteSets, TLC

VARIABLES files, dirs, unreadable, contents, cfg, fsChanges, last, aliases, calls,
          locals, loader, page, build

vars ==
    <<files, dirs, unreadable, contents, cfg, fsChanges, last, aliases, calls, locals,
      loader, page, build>>

\* the filesystem as a whole
fsVars == <<files, dirs, unreadable, contents>>

\* what the cascade functions neither read nor write
\* the parts of the site outside the cascade functions: the template loader,
\* a page in the browser, and the options and output of a production build
site == <<loader, page, build>>

aux == <<aliases, calls, locals, site>>

(***************************************************************************)
(* Bounds of the model                                                     *)
(***************************************************************************)
\* number of edits the user makes to the filesystem during one run
MaxFsChanges == 2

\* number of callers that resolve and scan at the same time
NumCallers == 2

\* number of DOMContentLoaded listeners a page registers while it loads
MaxListeners == 2

\* number of line-number containers a code block accumulates
MaxRows == 2

(***************************************************************************)
(* Strings and paths                                                       *)
(***************************************************************************)
\* a tuple of plain names as a path of single-token segments
D(s) == [i \in DOMAIN s |-> <<s[i]>>]

RootSeg == <<"/">>
UpSeg == <<"..">>
DotSeg == <<".">>

SiteJs == <<"site", ".js">>
SecretJs == <<"secret", ".js">>
HlJs == <<"hl", ".js">>
IndexJs == <<"index", ".js">>
Favicon == <<"favicon", ".svg">>
LogoPng == <<"logo", ".png">>
MainJs == <<"main", ".js">>
ThemeConfigMjs == <<"theme", ".config", ".mjs">>
ThemeConfigJs == <<"theme", ".config", ".js">>
Main == <<"main">>
HomeNjk == <<"home", ".njk">>
PostNjk == <<"post", ".njk">>
Hl == <<"hl">>
Img == <<"img">>
Nonexistent == <<"nonexistent">>

\* the value JavaScript yields for a missing property, as it prints in a string
Undefined == << <<"undefined">> >>

\* path.normalize: drops "." and empty segments, resolves ".." against the
\* segment before it, keeps ".." at the front of a relative path and drops it
\* at the root of an absolute one
RECURSIVE NormalizeFrom(_, _)
NormalizeFrom(acc, rest) ==
    IF rest = <<>> THEN acc
    ELSE LET s == Head(rest)
             r == Tail(rest)
         IN  IF s = DotSeg \/ s = <<>> \/ (s = RootSeg /\ acc # <<>>)
             THEN NormalizeFrom(acc, r)
             ELSE IF s = UpSeg
             THEN IF acc = <<>> \/ acc[Len(acc)] = UpSeg
                  THEN NormalizeFrom(Append(acc, s), r)
                  ELSE IF acc = <<RootSeg>>
                  THEN NormalizeFrom(acc, r)
                  ELSE NormalizeFrom(SubSeq(acc, 1, Len(acc) - 1), r)
             ELSE NormalizeFrom(Append(acc, s), r)

\* path.join(a, b): concatenate, then normalize
PathJoin(a, b) == NormalizeFrom(<<>>, a \o b)

IsPrefix(p, q) == Len(p) <= Len(q) /\ SubSeq(q, 1, Len(p)) = p

\* p lies inside directory d (or is d itself)
Inside(p, d) == IsPrefix(d, p)

\* p occurs in q as a run of whole segments
IsInfix(p, q) ==
    \E i \in 0..(Len(q) - Len(p)) : SubSeq(q, i + 1, i + Len(p)) = p

Parent(p) == SubSeq(p, 1, Len(p) - 1)
Base(p) == p[Len(p)]

\* every proper ancestor directory of p, the root included
Ancestors(p) == {SubSeq(p, 1, n) : n \in 1..(Len(p) - 1)}

\* String.prototype.endsWith on the last token of a segment
EndsWith(seg, ext) == seg # <<>> /\ seg[Len(seg)] = ext

\* `${name}.js`
WithJs(seg) == Append(seg, ".js")

(***************************************************************************)
(* Configuration                                                           *)
(***************************************************************************)
ProjectRoot == <<RootSeg, <<"proj">>>>

ResourceKeys == {"layouts", "features", "styles", "scripts", "data", "public"}

\* where the framework looks for user overrides when nothing is configured
DEFAULT_OVERRIDE_PATHS ==
    [k \in ResourceKeys |->
        CASE k = "layouts" -> D(<<"overrides", "layouts">>)
          [] k = "features" -> D(<<"overrides", "features">>)
          [] k = "styles" -> D(<<"overrides", "styles">>)
          [] k = "scripts" -> D(<<"overrides", "scripts">>)
          [] k = "data" -> D(<<"content", "_data">>)
          [] k = "public" -> D(<<"public">>)]

\* where resources live inside the theme package
THEME_RESOURCE_PATHS == [k \in ResourceKeys |-> D(<<k>>)]

\* the theme descriptor (theme.json): its name, the override directories it
\* declares, and its features with their entry files
ThemeMetadata ==
    [name |-> D(<<"theme">>),
     defaultOverridePaths |->
        [k \in {"layouts", "features", "styles", "scripts"} |->
            DEFAULT_OVERRIDE_PATHS[k]],
     themeFeatures |-> << [name |-> Hl, entry |-> <<<<"features">>, Hl, IndexJs>>] >>,
     layouts |-> << [name |-> <<"home">>, path |-> <<<<"layouts">>, HomeNjk>>],
                    [name |-> <<"post">>, path |-> <<<<"layouts">>, PostNjk>>] >>]

NoOverridePaths == [k \in {} |-> <<>>]

\* the overridePaths option a site may pass at initialization
Configs ==
    {NoOverridePaths,
     [k \in {"public"} |-> D(<<"..", "outside">>)]}

getThemeRoot(themeName) == PathJoin(ProjectRoot, D(<<"node_modules">>) \o themeName)

ThemeRoot == getThemeRoot(ThemeMetadata.name)

\* user paths win wholesale, then the theme's defaults, then the framework's
resolveOverridePaths(themeMetadata, overridePaths) ==
    IF DOMAIN overridePaths # {} THEN overridePaths
    ELSE IF DOMAIN themeMetadata.defaultOverridePaths # {}
         THEN themeMetadata.defaultOverridePaths
         ELSE DEFAULT_OVERRIDE_PATHS

Resolved == resolveOverridePaths(ThemeMetadata, cfg)

\* resolvedOverridePaths?.[key] || DEFAULT_OVERRIDE_PATHS[key]
getOverridePath(resolvedOverridePaths, key) ==
    IF key \in DOMAIN resolvedOverridePaths /\ resolvedOverridePaths[key] # <<>>
    THEN resolvedOverridePaths[key]
    ELSE DEFAULT_OVERRIDE_PATHS[key]

buildPaths(resolvedOverridePaths, resourceType, filename) ==
    LET userDir == getOverridePath(resolvedOverridePaths, resourceType)
        themeDir == THEME_RESOURCE_PATHS[resourceType]
    IN  [user |-> PathJoin(ProjectRoot, userDir \o filename),
         theme |-> PathJoin(ThemeRoot, themeDir \o filename),
         userDir |-> PathJoin(ProjectRoot, userDir),
         themeDir |-> PathJoin(ThemeRoot, themeDir)]

(***************************************************************************)
(* The filesystem                                                          *)
(***************************************************************************)
DefaultUserDir(k) == PathJoin(ProjectRoot, DEFAULT_OVERRIDE_PATHS[k])
ThemeDirOf(k) == PathJoin(ThemeRoot, THEME_RESOURCE_PATHS[k])
OutsideDir == <<RootSeg, <<"outside">>>>

ThemeFiles ==
    {ThemeDirOf("data") \o <<SiteJs>>,
     ThemeDirOf("features") \o <<HlJs>>,
     ThemeDirOf("features") \o <<Hl, IndexJs>>,
     ThemeDirOf("public") \o <<Favicon>>,
     ThemeDirOf("public") \o <<Img, LogoPng>>}

UserFiles ==
    {DefaultUserDir("data") \o <<SiteJs>>,
     DefaultUserDir("features") \o <<HlJs>>,
     DefaultUserDir("features") \o <<Hl, IndexJs>>,
     DefaultUserDir("public") \o <<Favicon>>,
     DefaultUserDir("public") \o <<Img, LogoPng>>}

OutsideFiles == {OutsideDir \o <<Favicon>>}

FileUniverse == ThemeFiles \cup UserFiles \cup OutsideFiles

DirsOf(fileSet) == UNION {Ancestors(p) : p \in fileSet}

DirUniverse == DirsOf(FileUniverse)

\* directories a user edit may create or remove as a whole: the resource
\* directories of both sides, the theme package, the directory outside
EditableDirs ==
    {DefaultUserDir(k) : k \in {"data", "features", "public"}}
        \cup {ThemeDirOf(k) : k \in {"data", "features", "public"}}
        \cup {ThemeRoot, OutsideDir}

\* directories whose read permission a user edit may change
ChmodDirs ==
    {DefaultUserDir("features"), DefaultUserDir("data"), ThemeDirOf("public") \o <<Img>>}

\* fs.existsSync
existsSync(p) == p \in files \/ p \in dirs

\* fs.readdirSync: the names in a directory, or the error it raises (EACCES
\* for a directory the process may not read)
readdirSync(d) ==
    IF d \in dirs /\ d \notin unreadable
    THEN [err |-> "none",
          names |-> {Base(p) : p \in {q \in files \cup dirs : Len(q) > 1 /\ Parent(q) = d}}]
    ELSE [err |-> IF d \in dirs THEN "EACCES"
                  ELSE IF d \in files THEN "ENOTDIR" ELSE "ENOENT",
          names |-> {}]

\* Dirent.isDirectory() of entry n of directory d
isDirectory(d, n) == (d \o <<n>>) \in dirs

(***************************************************************************)
(* ResourceResolver                                                        *)
(***************************************************************************)
NoPath == <<>>
NoMessage == <<>>

\* An error message is the sequence of the paths and names it prints.
DefaultErrorMessage(filename, paths) == <<filename, paths.user, paths.theme>>

\* resolveResource with the two probes in the other order
resolveResourceThemeFirst(resolvedOverridePaths, resourceType, filename, throwOnMissing, errorMessage) ==
    LET paths == buildPaths(resolvedOverridePaths, resourceType, filename)
    IN  IF existsSync(paths.theme)
        THEN [outcome |-> "value", path |-> paths.theme, source |-> "theme",
              message |-> NoMessage]
        ELSE IF existsSync(paths.user)
        THEN [outcome |-> "value", path |-> paths.user, source |-> "user",
              message |-> NoMessage]
        ELSE IF throwOnMissing
        THEN [outcome |-> "throw", path |-> NoPath, source |-> "none",
              message |-> IF errorMessage # NoMessage THEN errorMessage
                          ELSE DefaultErrorMessage(filename, paths)]
        ELSE [outcome |-> "null", path |-> NoPath, source |-> "none",
              message |-> NoMessage]

\* resolveResource throwing for every missing resource, strict or not
resolveResourceAlwaysStrict(resolvedOverridePaths, resourceType, filename, throwOnMissing, errorMessage) ==
    LET paths == buildPaths(resolvedOverridePaths, resourceType, filename)
    IN  IF existsSync(paths.user)
        THEN [outcome |-> "value", path |-> paths.user, source |-> "user",
              message |-> NoMessage]
        ELSE IF existsSync(paths.theme)
        THEN [outcome |-> "value", path |-> paths.theme, source |-> "theme",
              message |-> NoMessage]
        ELSE [outcome |-> "throw", path |-> NoPath, source |-> "none",
              message |-> IF errorMessage # NoMessage THEN errorMessage
                          ELSE DefaultErrorMessage(filename, paths)]

\* resolveResource: user first, then theme, then null or throw
resolveResource(resolvedOverridePaths, resourceType, filename, throwOnMissing, errorMessage) ==
    LET paths == buildPaths(resolvedOverridePaths, resourceType, filename)
    IN  IF existsSync(paths.user)
        THEN [outcome |-> "value", path |-> paths.user, source |-> "user",
              message |-> NoMessage]
        ELSE IF existsSync(paths.theme)
        THEN [outcome |-> "value", path |-> paths.theme, source |-> "theme",
              message |-> NoMessage]
        ELSE IF throwOnMissing
        THEN [outcome |-> "throw", path |-> NoPath, source |-> "none",
              message |-> IF errorMessage # NoMessage THEN errorMessage
                          ELSE DefaultErrorMessage(filename, paths)]
        ELSE [outcome |-> "null", path |-> NoPath, source |-> "none",
              message |-> NoMessage]

\* resourceExists: the non-strict resolution is not null
resourceExists(resolvedOverridePaths, resourceType, filename) ==
    resolveResource(resolvedOverridePaths, resourceType, filename, FALSE, NoMessage).outcome
        # "null"

\* the override directories of the metadata module validate.mjs imports
MetadataDefaultOverridePaths ==
    [k \in {"layouts", "bundles", "styles", "scripts", "data", "public"} |->
        CASE k = "layouts" -> D(<<"overrides", "layouts">>)
          [] k = "bundles" -> D(<<"overrides", "bundles">>)
          [] k = "styles" -> D(<<"overrides", "styles">>)
          [] k = "scripts" -> D(<<"overrides", "scripts">>)
          [] k = "data" -> D(<<"content", "_data">>)
          [] k = "public" -> D(<<"public">>)]

\* overridePaths[key] || metadata.defaultOverridePaths[key]
ConfiguredOr(overridePaths, key) ==
    IF key \in DOMAIN overridePaths /\ overridePaths[key] # <<>>
    THEN overridePaths[key]
    ELSE MetadataDefaultOverridePaths[key]

\* the user-then-theme probe each case of validateComponent makes
ProbeComponent(userPath, themePath) ==
    IF existsSync(userPath)
    THEN [outcome |-> "value", exists |-> TRUE, path |-> userPath, source |-> "user"]
    ELSE IF existsSync(themePath)
    THEN [outcome |-> "value", exists |-> TRUE, path |-> themePath, source |-> "theme"]
    ELSE [outcome |-> "value", exists |-> FALSE, path |-> NoPath, source |-> "none"]

\* validateComponent: layouts as <name>.njk, bundles as <name>.js, data files
\* by name; any other type does not exist
validateComponent(type, name, overridePaths) ==
    LET layoutsPath == ConfiguredOr(overridePaths, "layouts")
        bundlesPath == ConfiguredOr(overridePaths, "bundles")
        dataPath == ConfiguredOr(overridePaths, "data")
    IN  CASE type = "layout" ->
               ProbeComponent(PathJoin(ProjectRoot, layoutsPath \o <<Append(name, ".njk")>>),
                              PathJoin(ThemeRoot, D(<<"layouts">>) \o <<Append(name, ".njk")>>))
          [] type = "bundle" ->
               ProbeComponent(PathJoin(ProjectRoot, bundlesPath \o <<WithJs(name)>>),
                              PathJoin(ThemeRoot, D(<<"bundles">>) \o <<WithJs(name)>>))
          [] type = "data" ->
               ProbeComponent(PathJoin(ProjectRoot, dataPath \o <<name>>),
                              PathJoin(ThemeRoot, D(<<"data">>) \o <<name>>))
          [] OTHER ->
               [outcome |-> "value", exists |-> FALSE, path |-> NoPath, source |-> "none"]

(***************************************************************************)
(* ValidationReporter                                                      *)
(***************************************************************************)
\* fs.readFileSync(mainEntry).includes(<one of the manual theme imports>)
hasManualImport(p) == p \in files /\ p \in contents

\* a finding: what it reports and the path or name it is about
Finding(kind, subject) == [kind |-> kind, subject |-> subject]

\* the finding when the probed path is missing (or, for `present`, exists)
IfMissing(p, kind) == IF ~existsSync(p) THEN <<Finding(kind, p)>> ELSE <<>>
IfPresent(p, kind) == IF existsSync(p) THEN <<Finding(kind, p)>> ELSE <<>>

\* isValid counting warnings as failures too
IsValidNoFindings(errors, warnings) == Len(errors) = 0 /\ Len(warnings) = 0

\* isValid: errors.length === 0
IsValid(errors, warnings) == Len(errors) = 0

\* validateTheme after the theme package probe: required theme directories,
\* main entry, deprecated config files, manual imports, layouts directory,
\* Nunjucks
LaterChecks(overridePaths, errors0) ==
    LET scriptsPath == ConfiguredOr(overridePaths, "scripts")
        layoutsPath == ConfiguredOr(overridePaths, "layouts")
        mainEntry == PathJoin(ProjectRoot, scriptsPath \o <<MainJs>>)
        errors1 == errors0
                     \o IfMissing(PathJoin(ThemeRoot, D(<<"layouts">>)), "missingThemeDir")
                     \o IfMissing(PathJoin(ThemeRoot, D(<<"styles">>)), "missingThemeDir")
                     \o IfMissing(PathJoin(ThemeRoot, D(<<"scripts">>)), "missingThemeDir")
        warnings == IfMissing(mainEntry, "noEntryPoint")
                     \o IfPresent(PathJoin(ProjectRoot, <<ThemeConfigMjs>>), "deprecatedConfig")
                     \o IfPresent(PathJoin(ProjectRoot, <<ThemeConfigJs>>), "deprecatedConfig")
                     \o (IF existsSync(mainEntry) /\ hasManualImport(mainEntry)
                         THEN <<Finding("manualImport", mainEntry)>> ELSE <<>>)
                     \o IfMissing(PathJoin(ProjectRoot, layoutsPath), "noLayoutsDir")
        errors == errors1
                     \o IfMissing(PathJoin(ProjectRoot, D(<<"node_modules", "nunjucks">>)),
                                  "nunjucksNotFound")
    IN  [errors |-> errors, warnings |-> warnings, isValid |-> IsValid(errors, warnings)]

\* validateTheme going on with the later checks when the theme is missing
validateThemeNoShortCircuit(overridePaths) ==
    LaterChecks(overridePaths, IfMissing(ThemeRoot, "themeNotFound"))

\* validateTheme: a missing theme package is reported alone, at once
validateTheme(overridePaths) ==
    IF ~existsSync(ThemeRoot)
    THEN [errors |-> <<Finding("themeNotFound", ThemeRoot)>>, warnings |-> <<>>,
          isValid |-> FALSE]
    ELSE LaterChecks(overridePaths, <<>>)

\* logValidation ending the process for warnings as well
logValidationExitOnWarnings(validation, exitOnError) ==
    [exit |-> (Len(validation.errors) > 0 \/ Len(validation.warnings) > 0) /\ exitOnError]

\* logValidation: prints the findings; process.exit(1) when there are errors
\* and exitOnError is set
logValidation(validation, exitOnError) ==
    [exit |-> Len(validation.errors) > 0 /\ exitOnError]

(***************************************************************************)
(* Catalogs: a JavaScript Map from name to {name, source, path}, kept in   *)
(* insertion order                                                         *)
(***************************************************************************)
MapHas(items, key) == \E i \in 1..Len(items) : items[i].name = key

\* Map.set as a list push: a present key gets a second entry
MapSetAppends(items, key, value) == Append(items, value)

\* Map.set: replaces the value of a present key in place, appends a new key
MapSet(items, key, value) ==
    IF MapHas(items, key)
    THEN [i \in 1..Len(items) |-> IF items[i].name = key THEN value ELSE items[i]]
    ELSE Append(items, value)

\* the (name, source, path) triples of a catalog
Triples(items) == {items[i] : i \in 1..Len(items)}

\* the orders in which the operating system may enumerate a set of entries
Enumerations(S) ==
    {e \in [1..Cardinality(S) -> S] : \A i, j \in 1..Cardinality(S) : e[i] = e[j] => i = j}

Filters == {"all", "js", "jsOrJson"}

\* the filter callbacks the callers pass: none, file.endsWith('.js'),
\* file.endsWith('.js') || file.endsWith('.json')
Filter(f, file) ==
    CASE f = "all" -> TRUE
      [] f = "js" -> EndsWith(file, ".js")
      [] f = "jsOrJson" -> EndsWith(file, ".js") \/ EndsWith(file, ".json")

(***************************************************************************)
(* CascadeScanner                                                          *)
(***************************************************************************)
\* scanDirectory without the existence check and the try/catch
scanDirectoryUnguarded(dirPath, f) ==
    LET r == readdirSync(dirPath)
    IN  IF r.err # "none"
        THEN [threw |-> TRUE, names |-> {}]
        ELSE [threw |-> FALSE, names |-> {n \in r.names : Filter(f, n)}]

\* scanDirectory: a missing directory, and any error of readdirSync, give no
\* entries
scanDirectory(dirPath, f) ==
    IF ~existsSync(dirPath)
    THEN [threw |-> FALSE, names |-> {}]
    ELSE LET r == readdirSync(dirPath)
         IN  IF r.err # "none"
             THEN [threw |-> FALSE, names |-> {}]
             ELSE [threw |-> FALSE, names |-> {n \in r.names : Filter(f, n)}]

\* the first loop building each path from a variable left over from the
\* listing's last entry
RECURSIVE ThemePassStalePath(_, _, _)
ThemePassStalePath(items, list, themeDir) ==
    IF list = <<>> THEN items
    ELSE LET file == Head(list)
         IN  ThemePassStalePath(MapSet(items, <<file>>,
                                       [name |-> <<file>>, source |-> "theme",
                                        path |-> PathJoin(themeDir, <<list[Len(list)]>>)]),
                                Tail(list), themeDir)

\* the first loop of scanWithCascade: every theme entry, tagged "theme"
RECURSIVE ThemePass(_, _, _)
ThemePass(items, list, themeDir) ==
    IF list = <<>> THEN items
    ELSE LET file == Head(list)
         IN  ThemePass(MapSet(items, <<file>>,
                              [name |-> <<file>>, source |-> "theme",
                               path |-> PathJoin(themeDir, <<file>>)]),
                       Tail(list), themeDir)

\* the second loop tagging every user entry "override"
RECURSIVE UserPassAlwaysOverride(_, _, _)
UserPassAlwaysOverride(items, list, userDir) ==
    IF list = <<>> THEN items
    ELSE LET file == Head(list)
         IN  UserPassAlwaysOverride(MapSet(items, <<file>>,
                                           [name |-> <<file>>, source |-> "override",
                                            path |-> PathJoin(userDir, <<file>>)]),
                                    Tail(list), userDir)

\* the second loop testing items.size instead of items.has(file)
RECURSIVE UserPassSizeCheck(_, _, _)
UserPassSizeCheck(items, list, userDir) ==
    IF list = <<>> THEN items
    ELSE LET file == Head(list)
             isOverride == Len(items) > 0
         IN  UserPassSizeCheck(MapSet(items, <<file>>,
                                      [name |-> <<file>>,
                                       source |-> IF isOverride THEN "override" ELSE "user",
                                       path |-> PathJoin(userDir, <<file>>)]),
                               Tail(list), userDir)

\* the second loop: every user entry, "override" when the name is present
RECURSIVE UserPass(_, _, _)
UserPass(items, list, userDir) ==
    IF list = <<>> THEN items
    ELSE LET file == Head(list)
             isOverride == MapHas(items, <<file>>)
         IN  UserPass(MapSet(items, <<file>>,
                             [name |-> <<file>>,
                              source |-> IF isOverride THEN "override" ELSE "user",
                              path |-> PathJoin(userDir, <<file>>)]),
                      Tail(list), userDir)

\* scanWithCascade, given the order in which each directory was enumerated
scanWithCascade(resolvedOverridePaths, resourceType, f, themeList, userList) ==
    LET paths == buildPaths(resolvedOverridePaths, resourceType, <<>>)
    IN  IF scanDirectory(paths.themeDir, f).threw \/ scanDirectory(paths.userDir, f).threw
        THEN [threw |-> TRUE, items |-> <<>>]
        ELSE [threw |-> FALSE,
              items |-> UserPass(ThemePass(<<>>, themeList, paths.themeDir),
                                 userList, paths.userDir)]

(***************************************************************************)
(* RecursiveScanner and the static-asset catalog                           *)
(***************************************************************************)
\* path.relative(from, to): up from `from` to the common ancestor, then down
RECURSIVE CommonLen(_, _)
CommonLen(p, q) ==
    IF p = <<>> \/ q = <<>> \/ Head(p) # Head(q) THEN 0
    ELSE 1 + CommonLen(Tail(p), Tail(q))

PathRelative(from, to) ==
    LET c == CommonLen(from, to)
    IN  [i \in 1..(Len(from) - c) |-> UpSeg] \o SubSeq(to, c + 1, Len(to))

\* the entry names a public tree may hold
TreeNames == {Favicon, Img, LogoPng}

\* the enumeration orders of a public tree that can differ in effect: favicon
\* and img share a directory, logo.png is alone in its own
TreeOrders == {e \in Enumerations(TreeNames) : e[3] = LogoPng}

\* the entries of a directory in the order the operating system lists them,
\* `order` ranking every name
Listing(names, order) == SelectSeq(order, LAMBDA n : n \in names)

\* scanDirectoryRecursive: depth first, files as paths relative to baseDir; a
\* missing directory and an error of readdirSync give no entries
RECURSIVE scanDirectoryRecursive(_, _, _)
RECURSIVE scanEntries(_, _, _, _, _)

\* the loop of scanDirectoryRecursive keying each file relative to the
\* directory being read instead of the base directory
RECURSIVE scanEntriesRelativeToDir(_, _, _, _, _)
scanEntriesRelativeToDir(acc, entries, dirPath, baseDir, order) ==
    IF entries = <<>> THEN acc
    ELSE LET fullPath == PathJoin(dirPath, <<Head(entries)>>)
         IN  scanEntriesRelativeToDir(
                 IF isDirectory(dirPath, Head(entries))
                 THEN acc \o scanDirectoryRecursive(fullPath, baseDir, order)
                 ELSE Append(acc, PathRelative(dirPath, fullPath)),
                 Tail(entries), dirPath, baseDir, order)

scanEntries(acc, entries, dirPath, baseDir, order) ==
    IF entries = <<>> THEN acc
    ELSE LET fullPath == PathJoin(dirPath, <<Head(entries)>>)
         IN  scanEntries(
                 IF isDirectory(dirPath, Head(entries))
                 THEN acc \o scanDirectoryRecursive(fullPath, baseDir, order)
                 ELSE Append(acc, PathRelative(baseDir, fullPath)),
                 Tail(entries), dirPath, baseDir, order)

scanDirectoryRecursive(dirPath, baseDir, order) ==
    IF ~existsSync(dirPath) THEN <<>>
    ELSE LET r == readdirSync(dirPath)
         IN  IF r.err # "none" THEN <<>>
             ELSE scanEntries(<<>>, Listing(r.names, order), dirPath, baseDir, order)

RECURSIVE ThemeAssetPass(_, _, _)
ThemeAssetPass(assets, themeFiles, themeDir) ==
    IF themeFiles = <<>> THEN assets
    ELSE LET relativePath == Head(themeFiles)
         IN  ThemeAssetPass(MapSet(assets, relativePath,
                                   [name |-> relativePath, source |-> "theme",
                                    path |-> PathJoin(themeDir, relativePath)]),
                            Tail(themeFiles), themeDir)

RECURSIVE UserAssetPass(_, _, _)
UserAssetPass(assets, userFiles, userDir) ==
    IF userFiles = <<>> THEN assets
    ELSE LET relativePath == Head(userFiles)
             isOverride == MapHas(assets, relativePath)
         IN  UserAssetPass(MapSet(assets, relativePath,
                                  [name |-> relativePath,
                                   source |-> IF isOverride THEN "override" ELSE "user",
                                   path |-> PathJoin(userDir, relativePath)]),
                           Tail(userFiles), userDir)

\* getAvailableAssets, given the order in which each tree was enumerated
getAvailableAssets(overridePaths, themeOrder, userOrder) ==
    LET paths == buildPaths(overridePaths, "public", <<>>)
        themeFiles == scanDirectoryRecursive(paths.themeDir, paths.themeDir, themeOrder)
        userFiles == scanDirectoryRecursive(paths.userDir, paths.userDir, userOrder)
    IN  UserAssetPass(ThemeAssetPass(<<>>, themeFiles, paths.themeDir),
                      userFiles, paths.userDir)

(***************************************************************************)
(* Features                                                                *)
(***************************************************************************)
\* resolved[key] as JavaScript reads it
Prop(resolved, key) == IF key \in DOMAIN resolved THEN resolved[key] ELSE Undefined

\* createFeatureErrorMessage: names the feature, the directory and the file to
\* create under the configured (relative) feature directory, the theme import
createFeatureErrorMessage(featureName, themeMetadata, resolvedPaths) ==
    LET userFeatureDir == Prop(resolvedPaths, "features")
    IN  << <<featureName>>,
           userFeatureDir \o <<featureName>>,
           userFeatureDir \o <<featureName, IndexJs>>,
           <<<<"@theme">>, <<"features">>, featureName, IndexJs>> >>

\* resolveFeaturePath: the strict resolution of features/<name>.js
resolveFeaturePath(featureName, themeMetadata, overridePaths) ==
    LET resolved == resolveOverridePaths(themeMetadata, overridePaths)
    IN  resolveResource(resolved, "features", <<WithJs(featureName)>>, TRUE,
                        createFeatureErrorMessage(featureName, themeMetadata, resolved))

\* featureExists
featureExists(featureName, themeMetadata, overridePaths) ==
    resourceExists(resolveOverridePaths(themeMetadata, overridePaths), "features",
                   <<WithJs(featureName)>>)

\* the theme loop of getAvailableFeatures: each declared feature whose entry
\* file exists
RECURSIVE ThemeFeaturePass(_, _)
ThemeFeaturePass(features, declared) ==
    IF declared = <<>> THEN features
    ELSE LET feature == Head(declared)
             featurePath == PathJoin(ThemeRoot, feature.entry)
         IN  ThemeFeaturePass(
                 IF existsSync(featurePath)
                 THEN MapSet(features, <<feature.name>>,
                             [name |-> <<feature.name>>, source |-> "theme",
                              path |-> featurePath])
                 ELSE features,
                 Tail(declared))

\* the user loop: each subdirectory holding an index.js
RECURSIVE UserFeaturePass(_, _, _)
UserFeaturePass(features, dirents, userFeaturesDir) ==
    IF dirents = <<>> THEN features
    ELSE LET featureName == Head(dirents)
             indexPath == PathJoin(userFeaturesDir, <<featureName, IndexJs>>)
             isOverride == MapHas(features, <<featureName>>)
         IN  UserFeaturePass(
                 IF existsSync(indexPath)
                 THEN MapSet(features, <<featureName>>,
                             [name |-> <<featureName>>,
                              source |-> IF isOverride THEN "override" ELSE "user",
                              path |-> indexPath])
                 ELSE features,
                 Tail(dirents), userFeaturesDir)

\* the subdirectories getAvailableFeatures enumerates in the user directory
UserFeatureDirents(userFeaturesDir) ==
    {n \in readdirSync(userFeaturesDir).names : isDirectory(userFeaturesDir, n)}

\* getAvailableFeatures, given the order in which the user directory was
\* enumerated; path.join of an undefined directory and readdirSync both throw
getAvailableFeatures(themeMetadata, overridePaths, dirents) ==
    LET resolved == resolveOverridePaths(themeMetadata, overridePaths)
        featuresPath == Prop(resolved, "features")
        themeFeatures == ThemeFeaturePass(<<>>, themeMetadata.themeFeatures)
        userFeaturesDir == PathJoin(ProjectRoot, featuresPath)
    IN  IF featuresPath = Undefined
        THEN [threw |-> TRUE, items |-> <<>>]
        ELSE IF ~existsSync(userFeaturesDir)
        THEN [threw |-> FALSE, items |-> themeFeatures]
        ELSE IF readdirSync(userFeaturesDir).err # "none"
        THEN [threw |-> TRUE, items |-> <<>>]
        ELSE [threw |-> FALSE,
              items |-> UserFeaturePass(themeFeatures, dirents, userFeaturesDir)]

(***************************************************************************)
(* The deprecated data merge                                               *)
(***************************************************************************)
\* the forEach of mergeDataFiles over the theme's data entries, in the order
\* they were listed: an entry the user lacks is copied into the user's data
\* directory (created if need be); copyFileSync of a directory throws
RECURSIVE CopyThemeData(_, _, _, _)
CopyThemeData(fs, list, themeDataPath, userDataPath) ==
    IF list = <<>> \/ fs.threw THEN fs
    ELSE LET file == Head(list)
             userFile == PathJoin(userDataPath, <<file>>)
             themeFile == PathJoin(themeDataPath, <<file>>)
         IN  CopyThemeData(
                 IF userFile \in fs.files \/ userFile \in fs.dirs THEN fs
                 ELSE IF themeFile \in fs.dirs
                 THEN [fs EXCEPT !.dirs = @ \cup {Parent(userFile)} \cup Ancestors(userFile),
                                 !.threw = TRUE]
                 ELSE [fs EXCEPT !.files = @ \cup {userFile},
                                 !.dirs = @ \cup Ancestors(userFile),
                                 !.contents = IF themeFile \in contents
                                              THEN @ \cup {userFile} ELSE @],
                 Tail(list), themeDataPath, userDataPath)

\* mergeDataFiles, given the order in which the theme's data directory was
\* listed: what the filesystem holds afterwards, and whether the call threw
mergeDataFiles(overridePaths, list) ==
    LET dataDir == getOverridePath(overridePaths, "data")
        themeDataPath == PathJoin(ThemeRoot, D(<<"data">>))
        userDataPath == PathJoin(ProjectRoot, dataDir)
        before == [files |-> files, dirs |-> dirs, contents |-> contents, threw |-> FALSE]
    IN  IF ~existsSync(themeDataPath) THEN before
        ELSE IF readdirSync(themeDataPath).err # "none"
        THEN [before EXCEPT !.threw = TRUE]
        ELSE CopyThemeData(before, list, themeDataPath, userDataPath)

(***************************************************************************)
(* FeatureEntryResolver: the bundler's entry points                        *)
(***************************************************************************)
\* path.basename(filename, ext)
BaseName(seg, ext) ==
    IF Len(seg) > 1 /\ EndsWith(seg, ext) THEN SubSeq(seg, 1, Len(seg) - 1) ELSE seg

\* the flat getAvailableFeatures: the .js files of both feature directories,
\* renamed to their names without the extension
RECURSIVE RenameToBaseName(_, _)
RenameToBaseName(result, features) ==
    IF features = <<>> THEN result
    ELSE LET info == Head(features)
             name == <<BaseName(info.name[1], ".js")>>
         IN  RenameToBaseName(MapSet(result, name, [info EXCEPT !.name = name]),
                              Tail(features))

getAvailableFeaturesFlat(overridePaths, themeList, userList) ==
    RenameToBaseName(<<>>, scanWithCascade(overridePaths, "features", "js",
                                           themeList, userList).items)

\* entries[key] = path on a plain object: a present key keeps its place and
\* takes the new value
ObjHas(entries, key) == \E i \in 1..Len(entries) : entries[i].key = key

ObjSet(entries, key, value) ==
    IF ObjHas(entries, key)
    THEN [i \in 1..Len(entries) |->
             IF entries[i].key = key THEN [key |-> key, path |-> value] ELSE entries[i]]
    ELSE Append(entries, [key |-> key, path |-> value])

\* the key of the fixed entry
MainKey == <<"main">>

\* the entry key taken to be the feature's bare name
EntryKeyBareName(name) == name

\* `/${feature.name}.js`
EntryKey(name) == <<"/">> \o name \o <<".js">>

\* features.forEach(feature => entries[`/${feature.name}.js`] = feature.path)
RECURSIVE AddFeatureEntries(_, _)
AddFeatureEntries(entries, features) ==
    IF features = <<>> THEN entries
    ELSE AddFeatureEntries(ObjSet(entries, EntryKey(Head(features).name[1]),
                                  Head(features).path),
                           Tail(features))

\* features.forEach((feature, name) => entries[name] = feature.path)
RECURSIVE AddFeatureEntriesByName(_, _)
AddFeatureEntriesByName(entries, features) ==
    IF features = <<>> THEN entries
    ELSE AddFeatureEntriesByName(ObjSet(entries, Head(features).name[1],
                                        Head(features).path),
                                 Tail(features))

\* getFeatureEntries of the build package: the main entry under the resolved
\* scripts directory (path.join throws when there is none), then one entry
\* per feature of the folder catalog
getFeatureEntries(themeMetadata, overridePaths, dirents) ==
    LET resolved == resolveOverridePaths(themeMetadata, overridePaths)
        scriptsPath == Prop(resolved, "scripts")
        features == getAvailableFeatures(themeMetadata, overridePaths, dirents)
    IN  IF scriptsPath = Undefined \/ features.threw
        THEN [threw |-> TRUE, entries |-> <<>>]
        ELSE [threw |-> FALSE,
              entries |->
                  AddFeatureEntries(
                      << [key |-> MainKey,
                          path |-> PathJoin(ProjectRoot, scriptsPath \o <<MainJs>>)] >>,
                      features.items)]

\* getFeatureEntries of page-features.mjs: the scripts directory comes from
\* themeMetadata.cascade?.defaultOverridePaths?.scripts || 'overrides/scripts'
getFeatureEntriesPageFeatures(themeMetadata, overridePaths, dirents) ==
    LET scriptsPath ==
            IF "scripts" \in DOMAIN themeMetadata.defaultOverridePaths
            THEN themeMetadata.defaultOverridePaths["scripts"]
            ELSE D(<<"overrides", "scripts">>)
        features == getAvailableFeatures(themeMetadata, overridePaths, dirents)
    IN  IF features.threw
        THEN [threw |-> TRUE, entries |-> <<>>]
        ELSE [threw |-> FALSE,
              entries |->
                  AddFeatureEntries(
                      << [key |-> MainKey,
                          path |-> PathJoin(ProjectRoot, scriptsPath \o <<MainJs>>)] >>,
                      features.items)]

\* getFeatureEntries that also takes the theme name: overridePaths defaults to
\* {}, which is truthy, so the scripts directory is overridePaths.scripts ||
\* 'overrides/scripts'
getFeatureEntriesThemeName(themeMetadata, overridePaths, dirents) ==
    LET resolvedOverridePaths == overridePaths
        scriptsPath ==
            IF "scripts" \in DOMAIN resolvedOverridePaths
                /\ resolvedOverridePaths["scripts"] # <<>>
            THEN resolvedOverridePaths["scripts"]
            ELSE D(<<"overrides", "scripts">>)
        features == getAvailableFeatures(themeMetadata, resolvedOverridePaths, dirents)
    IN  IF features.threw
        THEN [threw |-> TRUE, entries |-> <<>>]
        ELSE [threw |-> FALSE,
              entries |->
                  AddFeatureEntries(
                      << [key |-> MainKey,
                          path |-> PathJoin(ProjectRoot, scriptsPath \o <<MainJs>>)] >>,
                      features.items)]

\* getFeatureEntries of the single-package theme: the scripts directory is
\* overridePaths.scripts || metadata.defaultOverridePaths.scripts, the
\* features come from the flat catalog and are keyed by name
getFeatureEntriesByName(overridePaths, themeList, userList) ==
    LET scriptsPath == ConfiguredOr(overridePaths, "scripts")
        features == getAvailableFeaturesFlat(overridePaths, themeList, userList)
    IN  [threw |-> FALSE,
         entries |->
             AddFeatureEntriesByName(
                 << [key |-> MainKey,
                     path |-> PathJoin(ProjectRoot, scriptsPath \o <<MainJs>>)] >>,
                 features)]

(***************************************************************************)
(* The theme plugin                                                        *)
(***************************************************************************)
\* the layout aliases Eleventy holds: none before the plugin has run
NoAliases == [n \in {} |-> NoPath]

\* eleventyConfig.addLayoutAlias
addLayoutAlias(map, name, layoutPath) ==
    [n \in DOMAIN map \cup {name} |-> IF n = name THEN layoutPath ELSE map[n]]

\* the layouts loop of themePlugin: each declared layout aliased to the
\* user's file of that name if it exists now, else to the theme's
RECURSIVE RegisterLayoutAliases(_, _, _)
RegisterLayoutAliases(map, layouts, userLayoutsPath) ==
    IF layouts = <<>> THEN map
    ELSE LET layout == Head(layouts)
             layoutFilename == Base(layout.path)
             userOverridePath == PathJoin(ProjectRoot, userLayoutsPath \o <<layoutFilename>>)
             themeLayoutPath == PathJoin(ThemeRoot, layout.path)
             layoutPath == IF existsSync(userOverridePath) THEN userOverridePath
                           ELSE themeLayoutPath
         IN  RegisterLayoutAliases(addLayoutAlias(map, layout.name, layoutPath),
                                   Tail(layouts), userLayoutsPath)

(***************************************************************************)
(* The record of the latest call                                           *)
(***************************************************************************)
NoCall ==
    [op |-> "none", type |-> "none", name |-> NoPath, strict |-> FALSE,
     filter |-> "none", outcome |-> "none", path |-> NoPath, source |-> "none",
     message |-> NoMessage, exists |-> FALSE, catalog |-> <<>>, list |-> <<>>,
     entries |-> <<>>, errors |-> <<>>, warnings |-> <<>>, isValid |-> FALSE,
     again |-> FALSE]

\* no call is pending: the caller has taken the latest result
Idle == last = NoCall

CallTypes == {"data", "features", "public"}

\* resource names a caller may ask for
ResolveNames(t) ==
    CASE t = "data" -> {<<SiteJs>>, <<UpSeg, SecretJs>>}
      [] t = "features" -> {<<HlJs>>, <<WithJs(Nonexistent)>>}
      [] t = "public" -> {<<Favicon>>, <<Img, LogoPng>>}

ResolveResourceCall(t, n, strict) ==
    LET r == resolveResource(Resolved, t, n, strict, NoMessage)
    IN  /\ Idle
        /\ last' = [NoCall EXCEPT !.op = "resolveResource", !.type = t, !.name = n,
                       !.strict = strict, !.outcome = r.outcome, !.path = r.path,
                       !.source = r.source, !.message = r.message]
        /\ UNCHANGED <<fsVars, cfg, fsChanges, aux>>

ResourceExistsCall(t, n) ==
    /\ Idle
    /\ last' = [NoCall EXCEPT !.op = "resourceExists", !.type = t, !.name = n,
                   !.outcome = "value",
                   !.exists = resourceExists(Resolved, t, n)]
    /\ UNCHANGED <<fsVars, cfg, fsChanges, aux>>

ComponentTypes == {"layout", "bundle", "data", "page"}

ComponentNames(type) == IF type = "data" THEN {SiteJs} ELSE {Hl}

ValidateComponentCall(type, name) ==
    LET r == validateComponent(type, name, cfg)
    IN  /\ Idle
        /\ last' = [NoCall EXCEPT !.op = "validateComponent", !.type = type,
                        !.name = <<name>>, !.outcome = r.outcome, !.exists = r.exists,
                        !.path = r.path, !.source = r.source]
        /\ UNCHANGED <<fsVars, cfg, fsChanges, aux>>

ScanTypes == {"data", "features"}

\* a scan may follow a scan with the same arguments at once
ScanWithCascadeCall(t, f) ==
    LET paths == buildPaths(Resolved, t, <<>>)
    IN  /\ Idle \/ (last.op = "scanWithCascade" /\ last.type = t /\ last.filter = f)
        /\ \E themeList \in Enumerations(scanDirectory(paths.themeDir, f).names),
              userList \in Enumerations(scanDirectory(paths.userDir, f).names) :
              LET r == scanWithCascade(Resolved, t, f, themeList, userList)
              IN  last' = [NoCall EXCEPT !.op = "scanWithCascade", !.type = t,
                              !.filter = f, !.again = ~Idle,
                              !.outcome = IF r.threw THEN "throw" ELSE "value",
                              !.catalog = r.items]
        /\ UNCHANGED <<fsVars, cfg, fsChanges, aux>>

GetAvailableAssetsCall ==
    /\ Idle \/ last.op = "getAvailableAssets"
    /\ \E themeOrder \in TreeOrders, userOrder \in TreeOrders :
          last' = [NoCall EXCEPT !.op = "getAvailableAssets", !.type = "public",
                      !.outcome = "value", !.again = ~Idle,
                      !.catalog = getAvailableAssets(cfg, themeOrder, userOrder)]
    /\ UNCHANGED <<fsVars, cfg, fsChanges, aux>>

\* scanDirectoryRecursive on the public tree of one side
ScanDirectoryRecursiveCall(side) ==
    LET paths == buildPaths(Resolved, "public", <<>>)
        dirPath == IF side = "theme" THEN paths.themeDir ELSE paths.userDir
    IN  /\ Idle
        /\ \E order \in TreeOrders :
              last' = [NoCall EXCEPT !.op = "scanDirectoryRecursive", !.type = "public",
                          !.path = dirPath, !.outcome = "value",
                          !.list = scanDirectoryRecursive(dirPath, dirPath, order)]
        /\ UNCHANGED <<fsVars, cfg, fsChanges, aux>>

FeatureNames == {Hl, Nonexistent}

ResolveFeaturePathCall(featureName) ==
    LET r == resolveFeaturePath(featureName, ThemeMetadata, cfg)
    IN  /\ Idle
        /\ last' = [NoCall EXCEPT !.op = "resolveFeaturePath", !.type = "features",
                        !.name = <<featureName>>, !.strict = TRUE,
                        !.outcome = r.outcome, !.path = r.path,
                        !.source = r.source, !.message = r.message]
        /\ UNCHANGED <<fsVars, cfg, fsChanges, aux>>

GetAvailableFeaturesCall ==
    LET userFeaturesDir ==
            PathJoin(ProjectRoot, Prop(resolveOverridePaths(ThemeMetadata, cfg), "features"))
    IN  /\ Idle \/ last.op = "getAvailableFeatures"
        /\ \E dirents \in Enumerations(UserFeatureDirents(userFeaturesDir)) :
              LET r == getAvailableFeatures(ThemeMetadata, cfg, dirents)
              IN  last' = [NoCall EXCEPT !.op = "getAvailableFeatures",
                              !.type = "features", !.again = ~Idle,
                              !.outcome = IF r.threw THEN "throw" ELSE "value",
                              !.catalog = r.items]
        /\ UNCHANGED <<fsVars, cfg, fsChanges, aux>>

MergeDataFilesCall ==
    /\ Idle
    /\ \E list \in Enumerations(readdirSync(PathJoin(ThemeRoot, D(<<"data">>))).names) :
          LET after == mergeDataFiles(cfg, list)
          IN  /\ files' = after.files
              /\ dirs' = after.dirs
              /\ contents' = after.contents
              /\ last' = [NoCall EXCEPT !.op = "mergeDataFiles", !.type = "data",
                              !.outcome = IF after.threw THEN "throw" ELSE "value"]
    /\ UNCHANGED <<unreadable, cfg, fsChanges, aux>>

ValidateThemeCall ==
    LET v == validateTheme(cfg)
    IN  /\ Idle
        /\ last' = [NoCall EXCEPT !.op = "validateTheme", !.outcome = "value",
                        !.errors = v.errors, !.warnings = v.warnings,
                        !.isValid = v.isValid]
        /\ UNCHANGED <<fsVars, cfg, fsChanges, aux>>

\* init: validateTheme, then logValidation with exitOnError, then the
\* registrations when the process is still alive
InitCall ==
    LET v == validateTheme(cfg)
        l == logValidation(v, TRUE)
    IN  /\ Idle
        /\ last' = [NoCall EXCEPT !.op = "init",
                        !.outcome = IF l.exit THEN "exit" ELSE "value",
                        !.errors = v.errors, !.warnings = v.warnings,
                        !.isValid = v.isValid]
        /\ UNCHANGED <<fsVars, cfg, fsChanges, aux>>

\* the three getFeatureEntries of the repository
EntryVariants == {"getFeatureEntries", "getFeatureEntriesPageFeatures",
                  "getFeatureEntriesByName"}

GetFeatureEntriesCall(variant) ==
    LET userFeaturesDir ==
            PathJoin(ProjectRoot, Prop(resolveOverridePaths(ThemeMetadata, cfg), "features"))
        flat == buildPaths(cfg, "features", <<>>)
    IN  /\ Idle
        /\ \E dirents \in Enumerations(UserFeatureDirents(userFeaturesDir)),
              themeList \in Enumerations(scanDirectory(flat.themeDir, "js").names),
              userList \in Enumerations(scanDirectory(flat.userDir, "js").names) :
              LET r == CASE variant = "getFeatureEntries" ->
                              getFeatureEntries(ThemeMetadata, cfg, dirents)
                         [] variant = "getFeatureEntriesPageFeatures" ->
                              getFeatureEntriesPageFeatures(ThemeMetadata, cfg, dirents)
                         [] variant = "getFeatureEntriesByName" ->
                              getFeatureEntriesByName(cfg, themeList, userList)
                         [] variant = "getFeatureEntriesThemeName" ->
                              getFeatureEntriesThemeName(ThemeMetadata, cfg, dirents)
              IN  last' = [NoCall EXCEPT !.op = variant, !.type = "features",
                              !.outcome = IF r.threw THEN "throw" ELSE "value",
                              !.entries = r.entries]
        /\ UNCHANGED <<fsVars, cfg, fsChanges, aux>>

\* themePlugin, the function createThemePlugin returns: path.join of an
\* undefined layouts directory throws before any alias is registered
ThemePluginCall ==
    LET userLayoutsPath == Prop(Resolved, "layouts")
        threw == ThemeMetadata.layouts # <<>> /\ userLayoutsPath = Undefined
    IN  /\ Idle
        /\ aliases' = IF threw THEN aliases
                      ELSE RegisterLayoutAliases(aliases, ThemeMetadata.layouts,
                                                 userLayoutsPath)
        /\ last' = [NoCall EXCEPT !.op = "themePlugin", !.type = "layouts",
                        !.outcome = IF threw THEN "throw" ELSE "value"]
        /\ UNCHANGED <<fsVars, cfg, fsChanges, calls, locals, site>>

\* a later render asks for a layout by its alias and gets the registered path
LayoutAliasLookup(name) ==
    /\ Idle
    /\ name \in DOMAIN aliases
    /\ last' = [NoCall EXCEPT !.op = "layoutAlias", !.type = "layouts",
                    !.name = <<name>>, !.outcome = "value", !.path = aliases[name]]
    /\ UNCHANGED <<fsVars, cfg, fsChanges, aux>>

(***************************************************************************)
(* Several callers at once: each call advances statement by statement,     *)
(* keeping `paths` and `items` in the locals of its own invocation         *)
(***************************************************************************)
Callers == 1..NumCallers

NoRequest ==
    [pc |-> "idle", op |-> "none", type |-> "none", name |-> NoPath, strict |-> FALSE,
     filter |-> "none", outcome |-> "none", path |-> NoPath, source |-> "none",
     message |-> NoMessage, catalog |-> <<>>]

NoPaths == [user |-> NoPath, theme |-> NoPath, userDir |-> NoPath, themeDir |-> NoPath]

NoLocals == [paths |-> NoPaths, items |-> <<>>]

\* one module-level `paths` and `items` used by every invocation
FrameShared(c) == 1

\* `const paths`, `const items`: each invocation has its own
Frame(c) == c

\* resolveResource, first statement: const paths = buildPaths(...)
ResolveBegin(c, t, n, strict) ==
    /\ calls[c].pc = "idle"
    /\ calls' = [calls EXCEPT ![c] = [NoRequest EXCEPT !.pc = "probeUser",
                                         !.op = "resolveResource", !.type = t,
                                         !.name = n, !.strict = strict]]
    /\ locals' = [locals EXCEPT ![Frame(c)].paths = buildPaths(Resolved, t, n)]
    /\ UNCHANGED <<fsVars, cfg, fsChanges, last, aliases, site>>

\* if (fs.existsSync(paths.user)) return {path: paths.user, source: 'user'}
ResolveProbeUser(c) ==
    LET paths == locals[Frame(c)].paths
    IN  /\ calls[c].pc = "probeUser"
        /\ IF existsSync(paths.user)
           THEN /\ calls' = [calls EXCEPT ![c].pc = "done", ![c].outcome = "value",
                                          ![c].path = paths.user, ![c].source = "user"]
                /\ locals' = [locals EXCEPT ![Frame(c)] = NoLocals]
           ELSE /\ calls' = [calls EXCEPT ![c].pc = "probeTheme"]
                /\ UNCHANGED locals
        /\ UNCHANGED <<fsVars, cfg, fsChanges, last, aliases, site>>

\* if (fs.existsSync(paths.theme)) return ...; then throw or return null
ResolveProbeTheme(c) ==
    LET paths == locals[Frame(c)].paths
    IN  /\ calls[c].pc = "probeTheme"
        /\ calls' = IF existsSync(paths.theme)
                    THEN [calls EXCEPT ![c].pc = "done", ![c].outcome = "value",
                                       ![c].path = paths.theme, ![c].source = "theme"]
                    ELSE IF calls[c].strict
                    THEN [calls EXCEPT ![c].pc = "done", ![c].outcome = "throw",
                                       ![c].message =
                                           DefaultErrorMessage(calls[c].name, paths)]
                    ELSE [calls EXCEPT ![c].pc = "done", ![c].outcome = "null"]
        /\ locals' = [locals EXCEPT ![Frame(c)] = NoLocals]
        /\ UNCHANGED <<fsVars, cfg, fsChanges, last, aliases, site>>

\* scanWithCascade, first statements: const items = new Map(); const paths = ...
ScanBegin(c, t, f) ==
    /\ calls[c].pc = "idle"
    /\ calls' = [calls EXCEPT ![c] = [NoRequest EXCEPT !.pc = "scanTheme",
                                         !.op = "scanWithCascade", !.type = t,
                                         !.filter = f]]
    /\ locals' = [locals EXCEPT ![Frame(c)] =
                      [paths |-> buildPaths(Resolved, t, <<>>), items |-> <<>>]]
    /\ UNCHANGED <<fsVars, cfg, fsChanges, last, aliases, site>>

\* the theme loop
ScanTheme(c) ==
    LET l == locals[Frame(c)]
    IN  /\ calls[c].pc = "scanTheme"
        /\ \E themeList \in Enumerations(scanDirectory(l.paths.themeDir, calls[c].filter).names) :
              locals' = [locals EXCEPT ![Frame(c)].items =
                            ThemePass(l.items, themeList, l.paths.themeDir)]
        /\ calls' = [calls EXCEPT ![c].pc = "scanUser"]
        /\ UNCHANGED <<fsVars, cfg, fsChanges, last, aliases, site>>

\* the user loop, and return items
ScanUser(c) ==
    LET l == locals[Frame(c)]
    IN  /\ calls[c].pc = "scanUser"
        /\ \E userList \in Enumerations(scanDirectory(l.paths.userDir, calls[c].filter).names) :
              calls' = [calls EXCEPT ![c].pc = "done", ![c].outcome = "value",
                                     ![c].catalog =
                                         UserPass(l.items, userList, l.paths.userDir)]
        /\ locals' = [locals EXCEPT ![Frame(c)] = NoLocals]
        /\ UNCHANGED <<fsVars, cfg, fsChanges, last, aliases, site>>

\* the caller takes its result
Take(c) ==
    /\ calls[c].pc = "done"
    /\ calls' = [calls EXCEPT ![c] = NoRequest]
    /\ UNCHANGED <<fsVars, cfg, fsChanges, last, aliases, locals, site>>

\* the caller takes the result of the latest call
Return ==
    /\ ~Idle
    /\ last' = NoCall
    /\ UNCHANGED <<fsVars, cfg, fsChanges, aux>>

(***************************************************************************)
(* The user's edits of the filesystem                                      *)
(***************************************************************************)
CreateFile(p) ==
    /\ Idle
    /\ fsChanges < MaxFsChanges
    /\ p \notin files
    /\ files' = files \cup {p}
    /\ dirs' = dirs \cup Ancestors(p)
    /\ fsChanges' = fsChanges + 1
    /\ UNCHANGED <<unreadable, contents, cfg, last, aux>>

DeleteFile(p) ==
    /\ Idle
    /\ fsChanges < MaxFsChanges
    /\ p \in files
    /\ files' = files \ {p}
    /\ contents' = contents \ {p}
    /\ fsChanges' = fsChanges + 1
    /\ UNCHANGED <<dirs, unreadable, cfg, last, aux>>

MakeDir(d) ==
    /\ Idle
    /\ fsChanges < MaxFsChanges
    /\ d \notin dirs
    /\ dirs' = dirs \cup {d} \cup Ancestors(d)
    /\ fsChanges' = fsChanges + 1
    /\ UNCHANGED <<files, unreadable, contents, cfg, last, aux>>

RemoveDir(d) ==
    /\ Idle
    /\ fsChanges < MaxFsChanges
    /\ d \in dirs
    /\ files' = {p \in files : ~Inside(p, d)}
    /\ dirs' = {e \in dirs : ~Inside(e, d)}
    /\ unreadable' = {e \in unreadable : ~Inside(e, d)}
    /\ contents' = {p \in contents : ~Inside(p, d)}
    /\ fsChanges' = fsChanges + 1
    /\ UNCHANGED <<cfg, last, aux>>

\* chmod: the user takes away or gives back the permission to read a directory
Chmod(d) ==
    /\ Idle
    /\ fsChanges < MaxFsChanges
    /\ d \in dirs
    /\ unreadable' = IF d \in unreadable THEN unreadable \ {d} ELSE unreadable \cup {d}
    /\ fsChanges' = fsChanges + 1
    /\ UNCHANGED <<files, dirs, contents, cfg, last, aux>>

(***************************************************************************)
(* The template loader: configureNunjucks builds the search paths and the  *)
(* ThemeAwareLoader; the engine asks the loader for a template by name     *)
(***************************************************************************)
ThemePrefix == <<"@theme">>
Layouts == <<"layouts">>
Partials == <<"partials">>

NoLoader == [configured |-> FALSE, searchPaths |-> <<>>, themeBasePath |-> <<>>]

\* path.isAbsolute
IsAbsolute(p) == p # <<>> /\ Head(p) = RootSeg

\* path.resolve(base, name) for an absolute base
PathResolve(base, name) ==
    IF IsAbsolute(name) THEN NormalizeFrom(<<>>, name) ELSE PathJoin(base, name)

\* overridePaths.layouts || 'overrides/layouts'
LayoutsOrDefault(overridePaths) ==
    IF "layouts" \in DOMAIN overridePaths /\ overridePaths["layouts"] # <<>>
    THEN overridePaths["layouts"]
    ELSE D(<<"overrides", "layouts">>)

\* the user part of searchPaths: the layouts override, its partials, includes,
\* macros, then the additional paths
UserSearchPaths(overridePaths, additionalPaths) ==
    << PathJoin(ProjectRoot, LayoutsOrDefault(overridePaths)),
       PathJoin(ProjectRoot, LayoutsOrDefault(overridePaths) \o <<Partials>>),
       PathJoin(ProjectRoot, D(<<"overrides", "includes">>)),
       PathJoin(ProjectRoot, D(<<"overrides", "macros">>)) >>
        \o [i \in DOMAIN additionalPaths |-> PathJoin(ProjectRoot, additionalPaths[i])]

\* the theme part of searchPaths
ThemeSearchPaths(themeBasePath) ==
    << PathJoin(themeBasePath, <<Layouts>>),
       PathJoin(themeBasePath, <<Layouts, Partials>>),
       PathJoin(themeBasePath, D(<<"includes">>)),
       PathJoin(themeBasePath, D(<<"macros">>)) >>

configureNunjucksThemeFirst(themeName, overridePaths, additionalPaths) ==
    LET themeBasePath == PathJoin(ProjectRoot, D(<<"node_modules">>) \o themeName)
    IN  [configured |-> TRUE,
         searchPaths |-> ThemeSearchPaths(themeBasePath)
                            \o UserSearchPaths(overridePaths, additionalPaths),
         themeBasePath |-> themeBasePath]

\* configureNunjucks: the loader it constructs
configureNunjucks(themeName, overridePaths, additionalPaths) ==
    LET themeBasePath == PathJoin(ProjectRoot, D(<<"node_modules">>) \o themeName)
    IN  [configured |-> TRUE,
         searchPaths |-> UserSearchPaths(overridePaths, additionalPaths)
                            \o ThemeSearchPaths(themeBasePath),
         themeBasePath |-> themeBasePath]

\* Nunjucks.FileSystemLoader.getSource: the first search path under which the
\* resolved name lies and exists, or null
RECURSIVE FirstMatch(_, _)
FirstMatch(searchPaths, name) ==
    IF searchPaths = <<>> THEN [found |-> FALSE, path |-> NoPath]
    ELSE LET basePath == Head(searchPaths)
             p == PathResolve(basePath, name)
         IN  IF Inside(p, basePath) /\ existsSync(p)
             THEN [found |-> TRUE, path |-> p]
             ELSE FirstMatch(Tail(searchPaths), name)

\* name.startsWith('@theme/')
HasThemePrefix(name) == Len(name) > 1 /\ Head(name) = ThemePrefix

\* ThemeAwareLoader.getSource
getSource(ld, name) ==
    IF HasThemePrefix(name)
    THEN LET themePath == Tail(name)
             fullPath == PathJoin(ld.themeBasePath, themePath)
         IN  FirstMatch(ld.searchPaths, fullPath)
    ELSE FirstMatch(ld.searchPaths, name)

\* the additionalLayoutPaths option a site may pass at initialization
AdditionalPathsChoices == {<<>>, <<D(<<"extra">>)>>}

\* init's call of configureNunjucks: overridePaths as the site gave them, or
\* the theme's defaults
ConfigureNunjucksCall(additionalPaths) ==
    LET overridePaths ==
            IF DOMAIN cfg # {} THEN cfg ELSE ThemeMetadata.defaultOverridePaths
    IN  /\ Idle
        /\ ~loader.configured
        /\ loader' = configureNunjucks(ThemeMetadata.name, overridePaths, additionalPaths)
        /\ UNCHANGED <<fsVars, cfg, fsChanges, last, aliases, calls, locals, page, build>>

\* template names the engine asks for
TemplateNames ==
    {<<HomeNjk>>, <<PostNjk>>, <<ThemePrefix, Layouts, HomeNjk>>, <<ThemePrefix, HomeNjk>>}

\* the engine loads a template
GetSourceCall(name) ==
    LET r == getSource(loader, name)
    IN  /\ Idle
        /\ loader.configured
        /\ last' = [NoCall EXCEPT !.op = "getSource", !.type = "layouts", !.name = name,
                        !.outcome = IF r.found THEN "value" ELSE "null",
                        !.path = r.path]
        /\ UNCHANGED <<fsVars, cfg, fsChanges, aux>>

(***************************************************************************)
(* The code-highlighting feature in a page: the module state, the document *)
(* and its code blocks                                                     *)
(***************************************************************************)
\* currentConfig = null
NullConfig ==
    [isNull |-> TRUE, copyButton |-> FALSE, lineNumbers |-> FALSE, copyButtonText |-> "none"]

defaultConfig ==
    [isNull |-> FALSE, copyButton |-> TRUE, lineNumbers |-> FALSE, copyButtonText |-> "Copy"]

\* { ...defaultConfig, ...userConfig }
MergeConfig(base, userConfig) ==
    [k \in DOMAIN base |-> IF k \in DOMAIN userConfig THEN userConfig[k] ELSE base[k]]

\* the userConfig arguments of init: none (index.auto.js), line numbers, line
\* numbers without the button, another button text
UserConfigs ==
    {[k \in {} |-> TRUE],
     [k \in {"lineNumbers"} |-> TRUE],
     [k \in {"lineNumbers", "copyButton"} |-> k = "lineNumbers"],
     [k \in {"copyButtonText"} |-> "Kopieren"]}

\* the code blocks of the page: a <pre> holding a <code>, and one without
CodeBlocks == {"pre-with-code", "bare-pre"}
HasCode(pre) == pre = "pre-with-code"

\* a code block nobody has decorated
PlainBlock == [buttons |-> 0, lineNumbers |-> FALSE, rows |-> 0]

\* the page while the document is still being parsed, the module just loaded
LoadingPage ==
    [readyState |-> "loading", isInitialized |-> FALSE, currentConfig |-> NullConfig,
     listeners |-> 0, blocks |-> [pre \in CodeBlocks |-> PlainBlock]]

\* addLineNumbers: the class, and the rows container when there is a <code>
addLineNumbers(block, pre) ==
    [block EXCEPT !.lineNumbers = TRUE,
                  !.rows = IF HasCode(pre) THEN @ + 1 ELSE @]

\* addCopyButton: one more button appended to the block
addCopyButton(block) == [block EXCEPT !.buttons = @ + 1]

\* initializeElements: reads currentConfig when it runs; currentConfig = null
\* makes currentConfig.codeBlockSelector throw before anything is done
initializeElements(pg) ==
    IF pg.currentConfig.isNull
    THEN [page |-> pg, threw |-> TRUE]
    ELSE [page |->
              [pg EXCEPT
                  !.blocks =
                      [pre \in CodeBlocks |->
                          LET numbered == IF pg.currentConfig.lineNumbers
                                          THEN addLineNumbers(pg.blocks[pre], pre)
                                          ELSE pg.blocks[pre]
                          IN  IF pg.currentConfig.copyButton
                              THEN addCopyButton(numbered)
                              ELSE numbered],
                  !.isInitialized = TRUE],
          threw |-> FALSE]

\* init
init(pg, userConfig) ==
    IF pg.isInitialized THEN pg
    ELSE LET stored == [pg EXCEPT !.currentConfig = MergeConfig(defaultConfig, userConfig)]
         IN  IF pg.readyState = "loading"
             THEN [stored EXCEPT !.listeners = @ + 1]
             ELSE initializeElements(stored).page

\* destroy: removes the buttons and the line-numbers class
destroy(pg) ==
    [pg EXCEPT !.blocks = [pre \in CodeBlocks |->
                              [pg.blocks[pre] EXCEPT !.buttons = 0, !.lineNumbers = FALSE]],
               !.isInitialized = FALSE,
               !.currentConfig = NullConfig]

\* the listeners of DOMContentLoaded run one after the other; one that throws
\* does not keep the next from running
RECURSIVE DispatchDOMContentLoaded(_, _, _)
DispatchDOMContentLoaded(pg, n, ran) ==
    IF n = 0 THEN [page |-> pg, ran |-> ran]
    ELSE LET r == initializeElements(pg)
         IN  DispatchDOMContentLoaded(r.page, n - 1,
                                      Append(ran, IF r.threw THEN "throw" ELSE "value"))

\* a script of the page calls init
InitFeatureCall(userConfig) ==
    /\ Idle
    /\ page.readyState = "loading" => page.listeners < MaxListeners
    /\ \A pre \in CodeBlocks : page.blocks[pre].rows < MaxRows
    /\ page' = init(page, userConfig)
    /\ last' = [NoCall EXCEPT !.op = "codeHighlighting.init", !.outcome = "value",
                    !.again = ~page.currentConfig.isNull]
    /\ UNCHANGED <<fsVars, cfg, fsChanges, aliases, calls, locals, loader, build>>

\* a script of the page calls destroy
DestroyFeatureCall ==
    /\ Idle
    /\ page' = destroy(page)
    /\ last' = [NoCall EXCEPT !.op = "codeHighlighting.destroy", !.outcome = "value"]
    /\ UNCHANGED <<fsVars, cfg, fsChanges, aliases, calls, locals, loader, build>>

\* the browser finishes parsing the document and fires DOMContentLoaded
DOMContentLoaded ==
    LET r == DispatchDOMContentLoaded([page EXCEPT !.readyState = "interactive"],
                                      page.listeners, <<>>)
    IN  /\ Idle
        /\ page.readyState = "loading"
        /\ page' = r.page
        /\ last' = [NoCall EXCEPT !.op = "DOMContentLoaded",
                        !.outcome = IF \E i \in DOMAIN r.ran : r.ran[i] = "throw"
                                    THEN "throw" ELSE "value",
                        !.list = r.ran]
        /\ UNCHANGED <<fsVars, cfg, fsChanges, aliases, calls, locals, loader, build>>

(***************************************************************************)
(* The production build: the optimization steps run at closeBundle         *)
(***************************************************************************)
\* names, as the words that toLowerCase() and includes() compare
PurgeCSS == <<"purge", "css">>
CriticalCSS == <<"critical", "css">>
MinifyHTML == <<"minify", "html">>
ValidateLinks == <<"validate", "links">>
PreserveNonHtml == <<"preserve", "non", "html">>

\* the exports of plugins/index.mjs, in the order a module namespace lists
\* them
PluginExports ==
    << <<"generate", "critical", "css">>,
       <<"minify", "html">>,
       <<"preserve", "non", "html", "files">>,
       <<"purge", "css", "files">>,
       <<"theme", "auto", "import", "plugin">>,
       <<"validate", "links">>,
       <<"validate", "links", "or", "throw">> >>

NoPlugin == <<>>

\* lowerKey.replace(/files?|generate|create/g, '')
RECURSIVE KeyWords(_)
KeyWords(key) ==
    IF key = <<>> THEN <<>>
    ELSE IF Head(key) \in {"file", "files", "generate", "create"}
         THEN KeyWords(Tail(key))
         ELSE <<Head(key)>> \o KeyWords(Tail(key))

\* the fuzzy loop of findPluginFunction: the first export whose name includes
\* the key words
RECURSIVE FuzzyMatch(_, _)
FuzzyMatch(keyWords, exports) ==
    IF exports = <<>> THEN NoPlugin
    ELSE IF IsInfix(keyWords, Head(exports)) THEN Head(exports)
         ELSE FuzzyMatch(keyWords, Tail(exports))

\* findPluginFunction: the export of that very name, else the fuzzy match
findPluginFunction(configKey, pluginExports) ==
    IF \E i \in DOMAIN pluginExports : pluginExports[i] = configKey
    THEN configKey
    ELSE FuzzyMatch(KeyWords(configKey), pluginExports)

\* what an optimization is configured as: true, false, or a custom function
OptimizationValues == {"true", "false", "function"}

\* the default of createThemeViteConfig's optimizations option, in the order
\* its keys are written
DefaultOptimizations ==
    << [name |-> PurgeCSS, config |-> "true"],
       [name |-> CriticalCSS, config |-> "true"],
       [name |-> MinifyHTML, config |-> "true"],
       [name |-> ValidateLinks, config |-> "true"],
       [name |-> PreserveNonHtml, config |-> "true"] >>

\* a step that ran: the plugin function called, or the custom function of a key
BuiltIn(fn) == [kind |-> "plugin", fn |-> fn]
Custom(name) == [kind |-> "custom", fn |-> name]

\* the for loop of runOptimizations over Object.entries(optimizations)
RECURSIVE RunEntries(_, _, _)
RunEntries(entries, buildDirs, ran) ==
    IF entries = <<>> THEN [threw |-> FALSE, ran |-> ran]
    ELSE LET name == Head(entries).name
             config == Head(entries).config
             pluginFn == findPluginFunction(name, PluginExports)
         IN  IF config = "false" THEN RunEntries(Tail(entries), buildDirs, ran)
             ELSE IF config = "function"
             THEN RunEntries(Tail(entries), buildDirs, Append(ran, Custom(name)))
             ELSE IF pluginFn = NoPlugin
             THEN RunEntries(Tail(entries), buildDirs, ran)
             ELSE IF name = PreserveNonHtml /\ ~buildDirs.temp
             THEN [threw |-> TRUE, ran |-> ran]
             ELSE RunEntries(Tail(entries), buildDirs, Append(ran, BuiltIn(pluginFn)))

\* runOptimizations
runOptimizations(optimizations, buildDirs) ==
    IF ~buildDirs.output THEN [threw |-> TRUE, ran |-> <<>>]
    ELSE RunEntries(optimizations, buildDirs, <<>>)

\* optimizations.<key> of the legacy closeBundle
ConfigOf(optimizations, key) ==
    IF \E i \in DOMAIN optimizations : optimizations[i].name = key
    THEN LET i == CHOOSE i \in DOMAIN optimizations : optimizations[i].name = key
         IN  optimizations[i].config
    ELSE "false"

\* one "if (=== true) ... else if (typeof === 'function') ..." of the legacy
\* closeBundle
LegacyStep(optimizations, key, fn, ran) ==
    IF ConfigOf(optimizations, key) = "true" THEN Append(ran, BuiltIn(fn))
    ELSE IF ConfigOf(optimizations, key) = "function" THEN Append(ran, Custom(key))
    ELSE ran

\* the legacy closeBundle: the five steps in the order they are written
legacyCloseBundle(optimizations) ==
    LET s1 == LegacyStep(optimizations, PreserveNonHtml,
                         <<"preserve", "non", "html", "files">>, <<>>)
        s2 == LegacyStep(optimizations, PurgeCSS, <<"purge", "css", "files">>, s1)
        s3 == LegacyStep(optimizations, CriticalCSS, <<"generate", "critical", "css">>, s2)
        s4 == LegacyStep(optimizations, MinifyHTML, <<"minify", "html">>, s3)
        s5 == LegacyStep(optimizations, ValidateLinks, <<"validate", "links">>, s4)
    IN  [threw |-> FALSE, ran |-> s5]

(***************************************************************************)
(* Link validation of the built site                                       *)
(***************************************************************************)
OutputDir == PathJoin(ProjectRoot, D(<<"_site">>))

IndexHtml == <<"index", ".html">>
MissingHtml == <<"missing", ".html">>
About == <<"about">>

\* an href or src attribute: what it starts with (a scheme, "/" for the site
\* root), its path, and what follows "#" or "?"
Href(scheme, root, p, fragment) ==
    [scheme |-> scheme, root |-> root, path |-> p, fragment |-> fragment]

\* the references a page may hold, in document order
RefSequence ==
    << [tag |-> "a", ref |-> Href("", FALSE, <<About>>, "#team")],
       [tag |-> "a", ref |-> Href("", TRUE, <<About>>, "")],
       [tag |-> "a", ref |-> Href("", FALSE, <<MissingHtml>>, "")],
       [tag |-> "a", ref |-> Href("https://", FALSE, <<>>, "")],
       [tag |-> "img", ref |-> Href("", FALSE, <<Img, LogoPng>>, "")],
       [tag |-> "img", ref |-> Href("data:", FALSE, <<>>, "")] >>

RefUniverse == {RefSequence[i] : i \in DOMAIN RefSequence}

\* root.querySelectorAll(selector), in document order
QuerySelectorAll(refs, tag) ==
    SelectSeq(RefSequence, LAMBDA r : r \in refs /\ r.tag = tag)

\* the hrefs the link loop skips: empty, external, mailto, tel, anchors
SkipsLink(href) ==
    \/ href.scheme = "" /\ ~href.root /\ href.path = <<>> /\ href.fragment = ""
    \/ href.scheme \in {"http://", "https://", "mailto:", "tel:"}
    \/ href.scheme = "" /\ ~href.root /\ href.path = <<>> /\ href.fragment # ""

\* the srcs the image loop skips: empty, external, data URIs
SkipsImage(src) ==
    \/ src.scheme = "" /\ ~src.root /\ src.path = <<>> /\ src.fragment = ""
    \/ src.scheme \in {"http://", "https://", "data:"}

\* the body of the try block for one file: the links, then the images.  The
\* parameter is named outputDir; path.join(output, ...) for a site-root path
\* evaluates the identifier `output`, which no scope declares, and throws a
\* ReferenceError that ends the try block
RECURSIVE CheckLinks(_, _, _, _)
CheckLinks(links, baseDir, relativePath, errors) ==
    IF links = <<>> THEN [threw |-> FALSE, errors |-> errors]
    ELSE LET href == Head(links).ref
             targetPath == PathJoin(baseDir, href.path)
             fileExists == existsSync(targetPath)
             indexExists == existsSync(PathJoin(targetPath, <<IndexHtml>>))
         IN  IF SkipsLink(href) THEN CheckLinks(Tail(links), baseDir, relativePath, errors)
             ELSE IF href.root
             THEN [threw |-> TRUE, errors |-> errors]
             ELSE CheckLinks(Tail(links), baseDir, relativePath,
                             IF ~fileExists /\ ~indexExists
                             THEN Append(errors, [file |-> relativePath,
                                                  type |-> "broken-link",
                                                  target |-> href])
                             ELSE errors)

RECURSIVE CheckImages(_, _, _, _)
CheckImages(images, baseDir, relativePath, errors) ==
    IF images = <<>> THEN [threw |-> FALSE, errors |-> errors]
    ELSE LET src == Head(images).ref
             imagePath == PathJoin(baseDir, src.path)
         IN  IF SkipsImage(src) THEN CheckImages(Tail(images), baseDir, relativePath, errors)
             ELSE IF src.root
             THEN [threw |-> TRUE, errors |-> errors]
             ELSE CheckImages(Tail(images), baseDir, relativePath,
                              IF ~existsSync(imagePath)
                              THEN Append(errors, [file |-> relativePath,
                                                   type |-> "missing-image",
                                                   target |-> src])
                              ELSE errors)

\* path.relative(outputDir, htmlFile) for a file below outputDir
RelativeTo(dir, p) == SubSeq(p, Len(dir) + 1, Len(p))

\* the for loop over htmlFiles: a throw inside try (readFile, or the
\* ReferenceError above) goes to the catch block, whose
\* path.relative(output, htmlFile) throws a ReferenceError before anything is
\* pushed, and that one leaves the function
RECURSIVE ValidateFiles(_, _, _)
ValidateFiles(htmlFiles, built, errors) ==
    IF htmlFiles = <<>> THEN [threw |-> FALSE, errors |-> errors]
    ELSE LET htmlFile == Head(htmlFiles)
             relativePath == RelativeTo(OutputDir, htmlFile)
             baseDir == Parent(htmlFile)
             readFails == htmlFile \in built.unreadableHtml
             links == CheckLinks(QuerySelectorAll(built.html[htmlFile], "a"), baseDir,
                                 relativePath, errors)
             images == CheckImages(QuerySelectorAll(built.html[htmlFile], "img"), baseDir,
                                   relativePath, links.errors)
             tryThrew == readFails \/ links.threw \/ (~links.threw /\ images.threw)
         IN  IF tryThrew
             THEN [threw |-> TRUE, errors |-> errors]
             ELSE ValidateFiles(Tail(htmlFiles), built, images.errors)

\* validateLinks, given the order in which glob lists the HTML files
validateLinks(htmlFiles, built, throwOnError) ==
    LET r == ValidateFiles(htmlFiles, built, <<>>)
    IN  IF r.threw
        THEN [outcome |-> "throw", message |-> "ReferenceError", valid |-> FALSE,
              errors |-> <<>>]
        ELSE IF r.errors = <<>>
        THEN [outcome |-> "value", message |-> "none", valid |-> TRUE, errors |-> <<>>]
        ELSE IF throwOnError
        THEN [outcome |-> "throw", message |-> "Link validation failed", valid |-> FALSE,
              errors |-> r.errors]
        ELSE [outcome |-> "value", message |-> "none", valid |-> FALSE,
              errors |-> r.errors]

\* the HTML files of the output directory: glob(`${outputDir}/**/*.html`)
HtmlFiles == {p \in files : Inside(p, OutputDir) /\ EndsWith(Base(p), ".html")}

\* a build nobody has configured
NoBuild ==
    [optimizations |-> <<>>, dirs |-> [temp |-> FALSE, output |-> FALSE],
     html |-> [p \in {} |-> {}], unreadableHtml |-> {}]

\* validateLinks(outputDir, {throwOnError}) on the built site
ValidateLinksCall(throwOnError) ==
    /\ Idle
    /\ \E htmlFiles \in Enumerations(HtmlFiles) :
          LET r == validateLinks(htmlFiles, build, throwOnError)
          IN  last' = [NoCall EXCEPT !.op = "validateLinks", !.strict = throwOnError,
                          !.outcome = r.outcome, !.isValid = r.valid,
                          !.errors = r.errors]
    /\ UNCHANGED <<fsVars, cfg, fsChanges, aux>>

\* closeBundle of createThemeViteConfig: runOptimizations(optimizations, dirs)
RunOptimizationsCall ==
    LET r == runOptimizations(build.optimizations, build.dirs)
    IN  /\ Idle
        /\ last' = [NoCall EXCEPT !.op = "runOptimizations",
                        !.outcome = IF r.threw THEN "throw" ELSE "value",
                        !.list = r.ran]
        /\ UNCHANGED <<fsVars, cfg, fsChanges, aux>>

\* closeBundle of the legacy createThemeViteConfig
LegacyCloseBundleCall ==
    LET r == legacyCloseBundle(build.optimizations)
    IN  /\ Idle
        /\ last' = [NoCall EXCEPT !.op = "legacyCloseBundle",
                        !.outcome = IF r.threw THEN "throw" ELSE "value",
                        !.list = r.ran]
        /\ UNCHANGED <<fsVars, cfg, fsChanges, aux>>

\* the state of everything outside the cascade before the site is built
SiteInit == loader = NoLoader /\ page = LoadingPage /\ build = NoBuild

(***************************************************************************)
(* Specification                                                           *)
(***************************************************************************)
\* a bare project, a project with the theme installed, and one that also
\* overrides everything
InitialFiles == {{}, ThemeFiles, ThemeFiles \cup UserFiles}

Init ==
    /\ files \in InitialFiles
    /\ dirs = DirsOf(files) \cup {ProjectRoot} \cup Ancestors(ProjectRoot)
    /\ unreadable = {}
    /\ contents = {}
    /\ cfg \in Configs
    /\ fsChanges = 0
    /\ last = NoCall
    /\ aliases = NoAliases
    /\ calls = [c \in Callers |-> NoRequest]
    /\ locals = [c \in Callers |-> NoLocals]
    /\ SiteInit

Next ==
    \/ \E p \in FileUniverse : CreateFile(p)
    \/ \E p \in FileUniverse : DeleteFile(p)
    \/ \E d \in EditableDirs : MakeDir(d)
    \/ \E d \in EditableDirs : RemoveDir(d)
    \/ \E d \in ChmodDirs : Chmod(d)
    \/ \E t \in CallTypes, strict \in BOOLEAN :
          \E n \in ResolveNames(t) : ResolveResourceCall(t, n, strict)
    \/ \E t \in CallTypes : \E n \in ResolveNames(t) : ResourceExistsCall(t, n)
    \/ \E t \in ScanTypes, f \in Filters : ScanWithCascadeCall(t, f)
    \/ \E type \in ComponentTypes : \E name \in ComponentNames(type) :
          ValidateComponentCall(type, name)
    \/ GetAvailableAssetsCall
    \/ \E side \in {"theme", "user"} : ScanDirectoryRecursiveCall(side)
    \/ \E featureName \in FeatureNames : ResolveFeaturePathCall(featureName)
    \/ GetAvailableFeaturesCall
    \/ MergeDataFilesCall
    \/ Return

Spec == Init /\ [][Next]_vars

(***************************************************************************)
(* The theme plugin under a watch/rebuild loop: the plugin runs, the user  *)
(* edits layout files, and layouts are resolved again                      *)
(***************************************************************************)
ThemeLayoutFiles == {ThemeDirOf("layouts") \o <<HomeNjk>>, ThemeDirOf("layouts") \o <<PostNjk>>}
UserLayoutFiles ==
    {DefaultUserDir("layouts") \o <<HomeNjk>>, DefaultUserDir("layouts") \o <<PostNjk>>}
LayoutFiles == ThemeLayoutFiles \cup UserLayoutFiles

LayoutNames == {<<"home">>, <<"post">>}

InitPlugin ==
    /\ files \in {ThemeLayoutFiles, ThemeLayoutFiles \cup UserLayoutFiles}
    /\ dirs = DirsOf(files) \cup {ProjectRoot} \cup Ancestors(ProjectRoot)
    /\ unreadable = {}
    /\ contents = {}
    /\ cfg \in Configs
    /\ fsChanges = 0
    /\ last = NoCall
    /\ aliases = NoAliases
    /\ calls = [c \in Callers |-> NoRequest]
    /\ locals = [c \in Callers |-> NoLocals]
    /\ SiteInit

NextPlugin ==
    \/ \E p \in LayoutFiles : CreateFile(p)
    \/ \E p \in LayoutFiles : DeleteFile(p)
    \/ ThemePluginCall
    \/ \E name \in LayoutNames : LayoutAliasLookup(name)
    \/ \E n \in {HomeNjk, PostNjk}, strict \in BOOLEAN :
          ResolveResourceCall("layouts", <<n>>, strict)
    \/ Return

SpecPlugin == InitPlugin /\ [][NextPlugin]_vars

(***************************************************************************)
(* Initialization: the site is validated while the installation changes    *)
(***************************************************************************)
MainEntry == PathJoin(ProjectRoot, DEFAULT_OVERRIDE_PATHS["scripts"] \o <<MainJs>>)

NunjucksDir == PathJoin(ProjectRoot, D(<<"node_modules", "nunjucks">>))

\* the directories validateTheme probes
InstallDirs ==
    {ThemeRoot, ThemeDirOf("layouts"), ThemeDirOf("styles"), ThemeDirOf("scripts"),
     NunjucksDir, DefaultUserDir("layouts")}

\* the files validateTheme probes
InstallFiles ==
    {MainEntry, PathJoin(ProjectRoot, <<ThemeConfigMjs>>),
     PathJoin(ProjectRoot, <<ThemeConfigJs>>)}

\* the user writes a manual theme import into an existing file
WriteImport(p) ==
    /\ Idle
    /\ fsChanges < MaxFsChanges
    /\ p \in files
    /\ p \notin contents
    /\ contents' = contents \cup {p}
    /\ fsChanges' = fsChanges + 1
    /\ UNCHANGED <<files, dirs, unreadable, cfg, last, aux>>

\* nothing installed, or the theme and Nunjucks installed with the
\* recommended entry point and layouts directory
InitInstall ==
    /\ \/ files = {} /\ dirs = {ProjectRoot} \cup Ancestors(ProjectRoot)
       \/ /\ files = {MainEntry}
          /\ dirs = InstallDirs \cup DirsOf(InstallDirs) \cup DirsOf(files)
    /\ unreadable = {}
    /\ contents = {}
    /\ cfg \in Configs
    /\ fsChanges = 0
    /\ last = NoCall
    /\ aliases = NoAliases
    /\ calls = [c \in Callers |-> NoRequest]
    /\ locals = [c \in Callers |-> NoLocals]
    /\ SiteInit

NextInstall ==
    \/ \E p \in InstallFiles : CreateFile(p)
    \/ \E p \in InstallFiles : DeleteFile(p)
    \/ \E d \in InstallDirs : MakeDir(d)
    \/ \E d \in InstallDirs : RemoveDir(d)
    \/ WriteImport(MainEntry)
    \/ ValidateThemeCall
    \/ InitCall
    \/ Return

SpecInstall == InitInstall /\ [][NextInstall]_vars

(***************************************************************************)
(* The build: entry points are asked for while the user edits features     *)
(***************************************************************************)
ThemeBuildFiles ==
    {ThemeDirOf("features") \o <<Hl, IndexJs>>, ThemeDirOf("features") \o <<HlJs>>}

UserBuildFiles ==
    {MainEntry,
     DefaultUserDir("features") \o <<Hl, IndexJs>>,
     DefaultUserDir("features") \o <<Main, IndexJs>>,
     DefaultUserDir("features") \o <<MainJs>>}

BuildFiles == ThemeBuildFiles \cup UserBuildFiles

\* the overridePaths option of a build: none, features only, public outside
BuildConfigs == Configs \cup {[k \in {"features"} |-> DEFAULT_OVERRIDE_PATHS[k]]}

InitBuild ==
    /\ files \in {{}, ThemeBuildFiles, BuildFiles}
    /\ dirs = DirsOf(files) \cup {ProjectRoot} \cup Ancestors(ProjectRoot)
    /\ unreadable = {}
    /\ contents = {}
    /\ cfg \in BuildConfigs
    /\ fsChanges = 0
    /\ last = NoCall
    /\ aliases = NoAliases
    /\ calls = [c \in Callers |-> NoRequest]
    /\ locals = [c \in Callers |-> NoLocals]
    /\ SiteInit

NextBuild ==
    \/ \E p \in BuildFiles : CreateFile(p)
    \/ \E p \in BuildFiles : DeleteFile(p)
    \/ Chmod(DefaultUserDir("features"))
    \/ \E variant \in EntryVariants : GetFeatureEntriesCall(variant)
    \/ GetAvailableFeaturesCall
    \/ Return

SpecBuild == InitBuild /\ [][NextBuild]_vars

(***************************************************************************)
(* Concurrent callers over a filesystem nobody edits                       *)
(***************************************************************************)
\* what the concurrent callers ask for
ConcurrentNames(t) == IF t = "data" THEN <<SiteJs>> ELSE <<WithJs(Nonexistent)>>

InitConcurrent ==
    /\ files \in InitialFiles \ {{}}
    /\ dirs = DirsOf(files) \cup {ProjectRoot} \cup Ancestors(ProjectRoot)
    /\ unreadable = {}
    /\ contents = {}
    /\ cfg \in Configs
    /\ fsChanges = 0
    /\ last = NoCall
    /\ aliases = NoAliases
    /\ calls = [c \in Callers |-> NoRequest]
    /\ locals = [c \in Callers |-> NoLocals]
    /\ SiteInit

NextConcurrent ==
    \E c \in Callers :
        \/ \E t \in ScanTypes, strict \in BOOLEAN :
              ResolveBegin(c, t, ConcurrentNames(t), strict)
        \/ ResolveProbeUser(c)
        \/ ResolveProbeTheme(c)
        \/ \E t \in ScanTypes : ScanBegin(c, t, "js")
        \/ ScanTheme(c)
        \/ ScanUser(c)
        \/ Take(c)

SpecConcurrent == InitConcurrent /\ [][NextConcurrent]_vars

(***************************************************************************)
(* Override directories: sites that configure none, some or all of them,   *)
(* and the consumers that compute paths from them                          *)
(***************************************************************************)
SrcScripts == D(<<"src", "scripts">>)

\* the overridePaths option: none, one directory only, or scripts and
\* features of the site's own choosing
PathConfigs ==
    BuildConfigs
        \cup {[k \in {"scripts", "features"} |->
                  IF k = "scripts" THEN SrcScripts ELSE DEFAULT_OVERRIDE_PATHS[k]]}

AllEntryVariants == EntryVariants \cup {"getFeatureEntriesThemeName"}

\* the sites of this specification have the main entry in either scripts
\* directory and no feature named main
PathsFiles ==
    ThemeBuildFiles
        \cup {MainEntry, PathJoin(ProjectRoot, SrcScripts \o <<MainJs>>),
              DefaultUserDir("features") \o <<Hl, IndexJs>>}

InitPaths ==
    /\ files \in {ThemeBuildFiles, PathsFiles}
    /\ dirs = DirsOf(files) \cup {ProjectRoot} \cup Ancestors(ProjectRoot)
    /\ unreadable = {}
    /\ contents = {}
    /\ cfg \in PathConfigs
    /\ fsChanges = 0
    /\ last = NoCall
    /\ aliases = NoAliases
    /\ calls = [c \in Callers |-> NoRequest]
    /\ locals = [c \in Callers |-> NoLocals]
    /\ SiteInit

NextPaths ==
    \/ \E p \in PathsFiles : CreateFile(p)
    \/ \E p \in PathsFiles : DeleteFile(p)
    \/ \E variant \in AllEntryVariants : GetFeatureEntriesCall(variant)
    \/ GetAvailableFeaturesCall
    \/ ThemePluginCall
    \/ \E strict \in BOOLEAN : ResolveResourceCall("features", <<HlJs>>, strict)
    \/ Return

SpecPaths == InitPaths /\ [][NextPaths]_vars

(***************************************************************************)
(* A resolve call while another process moves the resource: the resource   *)
(* is in the user's directory, the theme's, or both, at every instant      *)
(***************************************************************************)
MovedFiles == {DefaultUserDir("data") \o <<SiteJs>>, ThemeDirOf("data") \o <<SiteJs>>}

\* the other process removes one copy only while the other copy is there
DeleteKeepingOne(p) ==
    /\ \E q \in MovedFiles \ {p} : q \in files
    /\ DeleteFile(p)

InitMove ==
    /\ files \in (SUBSET MovedFiles) \ {{}}
    /\ dirs = DirsOf(MovedFiles) \cup {ProjectRoot} \cup Ancestors(ProjectRoot)
    /\ unreadable = {}
    /\ contents = {}
    /\ cfg \in Configs
    /\ fsChanges = 0
    /\ last = NoCall
    /\ aliases = NoAliases
    /\ calls = [c \in Callers |-> NoRequest]
    /\ locals = [c \in Callers |-> NoLocals]
    /\ SiteInit

NextMove ==
    \/ \E p \in MovedFiles : CreateFile(p)
    \/ \E p \in MovedFiles : DeleteKeepingOne(p)
    \/ \E c \in Callers :
          \/ \E strict \in BOOLEAN : ResolveBegin(c, "data", <<SiteJs>>, strict)
          \/ ResolveProbeUser(c)
          \/ ResolveProbeTheme(c)
          \/ Take(c)

SpecMove == InitMove /\ [][NextMove]_vars

(***************************************************************************)
(* A page that uses the code-highlighting feature: its scripts call init   *)
(* and destroy while the document loads and afterwards                     *)
(***************************************************************************)
InitPage ==
    /\ files = {}
    /\ dirs = {ProjectRoot} \cup Ancestors(ProjectRoot)
    /\ unreadable = {}
    /\ contents = {}
    /\ cfg = NoOverridePaths
    /\ fsChanges = 0
    /\ last = NoCall
    /\ aliases = NoAliases
    /\ calls = [c \in Callers |-> NoRequest]
    /\ locals = [c \in Callers |-> NoLocals]
    /\ loader = NoLoader
    /\ build = NoBuild
    /\ page \in {LoadingPage, [LoadingPage EXCEPT !.readyState = "complete"]}

NextPage ==
    \/ \E userConfig \in UserConfigs : InitFeatureCall(userConfig)
    \/ DestroyFeatureCall
    \/ DOMContentLoaded
    \/ Return

SpecPage == InitPage /\ [][NextPage]_vars

(***************************************************************************)
(* Production builds: each site passes its optimizations option (or none)  *)
(* and its dirs, and closeBundle runs the steps                            *)
(***************************************************************************)
\* the optimizations a site may pass: the five keys in the documented order,
\* each true, false or a function; a site that passes none gets the default
OptimizationChoices ==
    {[i \in 1..5 |-> [name |-> DefaultOptimizations[i].name, config |-> v[i]]] :
        v \in [1..5 -> OptimizationValues]}

DirsChoices == {[temp |-> TRUE, output |-> TRUE], [temp |-> FALSE, output |-> TRUE]}

InitOptimize ==
    /\ files = {}
    /\ dirs = {ProjectRoot} \cup Ancestors(ProjectRoot)
    /\ unreadable = {}
    /\ contents = {}
    /\ cfg = NoOverridePaths
    /\ fsChanges = 0
    /\ last = NoCall
    /\ aliases = NoAliases
    /\ calls = [c \in Callers |-> NoRequest]
    /\ locals = [c \in Callers |-> NoLocals]
    /\ loader = NoLoader
    /\ page = LoadingPage
    /\ build \in [optimizations : OptimizationChoices, dirs : DirsChoices,
                   html : {NoBuild.html}, unreadableHtml : {{}}]

NextOptimize ==
    \/ RunOptimizationsCall
    \/ LegacyCloseBundleCall
    \/ Return

SpecOptimize == InitOptimize /\ [][NextOptimize]_vars

(***************************************************************************)
(* Built sites: a home page with any of the references, an about page that *)
(* may be missing or unreadable, an image that may be missing              *)
(***************************************************************************)
HomePage == OutputDir \o <<IndexHtml>>
AboutPage == OutputDir \o <<About, IndexHtml>>
LogoFile == OutputDir \o <<Img, LogoPng>>

InitLinks ==
    /\ \E others \in SUBSET {AboutPage, LogoFile} : files = {HomePage} \cup others
    /\ dirs = DirsOf(files) \cup {ProjectRoot} \cup Ancestors(ProjectRoot)
    /\ unreadable = {}
    /\ contents = {}
    /\ cfg = NoOverridePaths
    /\ fsChanges = 0
    /\ last = NoCall
    /\ aliases = NoAliases
    /\ calls = [c \in Callers |-> NoRequest]
    /\ locals = [c \in Callers |-> NoLocals]
    /\ loader = NoLoader
    /\ page = LoadingPage
    /\ \E refs \in SUBSET RefUniverse, noRead \in SUBSET (files \cap {AboutPage}) :
          build = [NoBuild EXCEPT
                      !.dirs = [temp |-> TRUE, output |-> TRUE],
                      !.html = [p \in HtmlFiles |-> IF p = HomePage THEN refs ELSE {}],
                      !.unreadableHtml = noRead]

NextLinks ==
    \/ \E throwOnError \in BOOLEAN : ValidateLinksCall(throwOnError)
    \/ Return

SpecLinks == InitLinks /\ [][NextLinks]_vars

(***************************************************************************)
(* Template lookup: the loader is configured once, templates come and go,  *)
(* and the engine loads templates by name                                  *)
(***************************************************************************)
ThemeTemplateFiles ==
    {ThemeRoot \o <<Layouts, HomeNjk>>,
     ThemeRoot \o <<Layouts, Partials, PostNjk>>,
     ThemeRoot \o <<HomeNjk>>}

UserTemplateFiles ==
    {DefaultUserDir("layouts") \o <<HomeNjk>>,
     DefaultUserDir("layouts") \o <<Partials, PostNjk>>,
     DefaultUserDir("layouts") \o <<Layouts, HomeNjk>>,
     PathJoin(ProjectRoot, D(<<"extra">>)) \o <<HomeNjk>>}

TemplateFiles == ThemeTemplateFiles \cup UserTemplateFiles

\* the overridePaths option of a site: none, or its own layouts directory
LoaderConfigs == {NoOverridePaths, [k \in {"layouts"} |-> D(<<"src", "layouts">>)]}

InitLoader ==
    /\ files \in {ThemeTemplateFiles, TemplateFiles}
    /\ dirs = DirsOf(files) \cup {ProjectRoot} \cup Ancestors(ProjectRoot)
    /\ unreadable = {}
    /\ contents = {}
    /\ cfg \in LoaderConfigs
    /\ fsChanges = 0
    /\ last = NoCall
    /\ aliases = NoAliases
    /\ calls = [c \in Callers |-> NoRequest]
    /\ locals = [c \in Callers |-> NoLocals]
    /\ SiteInit

NextLoader ==
    \/ \E p \in TemplateFiles : CreateFile(p)
    \/ \E p \in TemplateFiles : DeleteFile(p)
    \/ \E additionalPaths \in AdditionalPathsChoices : ConfigureNunjucksCall(additionalPaths)
    \/ \E name \in TemplateNames : GetSourceCall(name)
    \/ Return

SpecLoader == InitLoader /\ [][NextLoader]_vars

(***************************************************************************)
(* What the filesystem holds, read off the state directly                  *)
(***************************************************************************)
ResolveOps == {"resolveResource", "resolveFeaturePath"}
CatalogOps == {"scanWithCascade", "getAvailableAssets", "getAvailableFeatures"}

\* the file name the latest resolution asked for
LastFile ==
    IF last.op = "resolveFeaturePath" THEN <<WithJs(last.name[1])>> ELSE last.name

UserDirFor(t) == PathJoin(ProjectRoot, getOverridePath(cfg, t))
UserPathOf(t, n) == PathJoin(ProjectRoot, getOverridePath(cfg, t) \o n)
ThemePathOf(t, n) == PathJoin(ThemeRoot, D(<<t>>) \o n)

\* the entries directly inside directory d and the files anywhere below it,
\* as far as the process may read them: a directory it may not read shows
\* nothing of what it holds
Readable(d) == d \in dirs /\ d \notin unreadable

ChildNames(d) ==
    IF Readable(d)
    THEN {<<Base(p)>> : p \in {q \in files \cup dirs : Len(q) = Len(d) + 1 /\ IsPrefix(d, q)}}
    ELSE {}

FilesBelow(d) ==
    {SubSeq(p, Len(d) + 1, Len(p)) :
        p \in {q \in files : /\ Len(q) > Len(d)
                              /\ IsPrefix(d, q)
                              /\ \A n \in Len(d)..(Len(q) - 1) : Readable(SubSeq(q, 1, n))}}

DeclaredFeatures ==
    {ThemeMetadata.themeFeatures[i] : i \in 1..Len(ThemeMetadata.themeFeatures)}

\* the names each side offers to the latest catalog call
ThemeListing ==
    CASE last.op = "scanWithCascade" ->
           {n \in ChildNames(ThemeDirOf(last.type)) : Filter(last.filter, n[1])}
      [] last.op = "getAvailableAssets" -> FilesBelow(ThemeDirOf("public"))
      [] last.op = "getAvailableFeatures" ->
           {<<f.name>> : f \in {g \in DeclaredFeatures : (ThemeRoot \o g.entry) \in files}}
      [] OTHER -> {}

UserListing ==
    CASE last.op = "scanWithCascade" ->
           {n \in ChildNames(UserDirFor(last.type)) : Filter(last.filter, n[1])}
      [] last.op = "getAvailableAssets" -> FilesBelow(UserDirFor("public"))
      [] last.op = "getAvailableFeatures" ->
           {n \in ChildNames(UserDirFor("features")) :
               /\ (UserDirFor("features") \o n) \in dirs
               /\ (UserDirFor("features") \o n \o <<IndexJs>>) \in files \cup dirs}
      [] OTHER -> {}

\* the path each side's copy of a listed name has
ThemeCopy(n) ==
    IF last.op = "getAvailableFeatures"
    THEN ThemeRoot \o (CHOOSE f \in DeclaredFeatures : <<f.name>> = n).entry
    ELSE ThemeDirOf(last.type) \o n

UserCopy(n) ==
    IF last.op = "getAvailableFeatures"
    THEN UserDirFor("features") \o n \o <<IndexJs>>
    ELSE UserDirFor(last.type) \o n

Scanned == last.op \in CatalogOps /\ last.outcome = "value"

EntriesNamed(n) == {i \in 1..Len(last.catalog) : last.catalog[i].name = n}

\* the catalog holds exactly one entry for n, with this source and path
OneEntry(n, source, path) ==
    /\ Cardinality(EntriesNamed(n)) = 1
    /\ \A i \in EntriesNamed(n) :
          last.catalog[i] = [name |-> n, source |-> source, path |-> path]

(***************************************************************************)
(* Claims                                                                  *)
(***************************************************************************)
\* C1: whenever a file exists at the computed user path at the time of the
\* call, the resolution returns the user path and never source "theme"
\* (resolveResource, resolveFeaturePath, and the data case of
\* validateComponent).
C1_UserFileWins ==
    /\ (last.op \in ResolveOps /\ existsSync(UserPathOf(last.type, LastFile)))
          => /\ last.outcome = "value"
             /\ last.source = "user"
             /\ last.path = UserPathOf(last.type, LastFile)
    /\ (/\ last.op = "validateComponent"
        /\ last.type = "data"
        /\ existsSync(UserPathOf("data", last.name)))
          => /\ last.exists
             /\ last.source = "user"
             /\ last.path = UserPathOf("data", last.name)

\* C1 witness: both copies exist and the resolution returned the user's
C1_Witness ==
    /\ last.op = "resolveResource"
    /\ existsSync(UserPathOf(last.type, last.name))
    /\ existsSync(ThemePathOf(last.type, last.name))
    /\ last.source = "user"

\* C2: a name present in both listings has exactly one catalog entry, tagged
\* "override", with the user's path.
C2_CollisionIsOneOverride ==
    Scanned =>
        \A n \in ThemeListing \cap UserListing : OneEntry(n, "override", UserCopy(n))

\* C2 witness: the theme declares feature hl, the user has the same folder,
\* and the feature catalog is the single override entry
C2_Witness ==
    /\ last.op = "getAvailableFeatures"
    /\ <<Hl>> \in ThemeListing \cap UserListing
    /\ Len(last.catalog) = 1
    /\ last.catalog[1].source = "override"

\* C3: a name present in exactly one location has exactly one entry, tagged
\* "theme" with the theme path or "user" with the user path; a name present
\* in neither location has no entry.
C3_SingleLocationEntries ==
    Scanned =>
        /\ \A n \in ThemeListing \ UserListing : OneEntry(n, "theme", ThemeCopy(n))
        /\ \A n \in UserListing \ ThemeListing : OneEntry(n, "user", UserCopy(n))
        /\ \A i \in 1..Len(last.catalog) :
              last.catalog[i].name \in ThemeListing \cup UserListing

\* C3 witness: the theme has favicon.svg, the user has no public directory,
\* and the asset catalog is that one theme entry
C3_Witness ==
    /\ last.op = "getAvailableAssets"
    /\ UserDirFor("public") \notin dirs
    /\ last.catalog = << [name |-> <<Favicon>>, source |-> "theme",
                          path |-> ThemeDirOf("public") \o <<Favicon>>] >>

\* C4: a resource that exists at neither path resolves to null, and the call
\* throws exactly when strict mode was requested; no path is returned.
C4_MissingIsNullOrStrictThrow ==
    /\ (/\ last.op = "resolveResource"
        /\ ~existsSync(UserPathOf(last.type, last.name))
        /\ ~existsSync(ThemePathOf(last.type, last.name)))
          => /\ last.outcome = IF last.strict THEN "throw" ELSE "null"
             /\ last.path = NoPath
    /\ (/\ last.op = "resourceExists"
        /\ ~existsSync(UserPathOf(last.type, last.name))
        /\ ~existsSync(ThemePathOf(last.type, last.name)))
          => /\ last.outcome = "value"
             /\ ~last.exists
    /\ last.op = "resolveResource" /\ last.outcome = "throw" => last.strict

\* C4 witness: a non-strict resolution of a resource missing on both sides
\* returned null
C4_Witness ==
    /\ last.op = "resolveResource"
    /\ ~last.strict
    /\ ~existsSync(UserPathOf(last.type, last.name))
    /\ ~existsSync(ThemePathOf(last.type, last.name))
    /\ last.outcome = "null"

\* an error message prints path p: one of its parts holds p as a run of
\* whole segments
MessageContains(message, p) ==
    \E i \in 1..Len(message) : IsInfix(p, message[i])

\* C5: resolveFeaturePath throws for a feature missing on both sides, and the
\* message contains both absolute paths that were checked, the computed user
\* path and the computed theme path.
C5_StrictMessageListsCheckedPaths ==
    (/\ last.op = "resolveFeaturePath"
     /\ ~existsSync(UserPathOf("features", LastFile))
     /\ ~existsSync(ThemePathOf("features", LastFile)))
        => /\ last.outcome = "throw"
           /\ MessageContains(last.message, UserPathOf("features", LastFile))
           /\ MessageContains(last.message, ThemePathOf("features", LastFile))

\* C6: for every resource name the computed user path lies inside the
\* configured override directory of its type and the computed theme path
\* inside the theme's directory of its type.
C6_PathsStayInsideRoots ==
    last.op = "resolveResource" =>
        LET paths == buildPaths(Resolved, last.type, last.name)
        IN  /\ Inside(paths.user, paths.userDir)
            /\ Inside(paths.theme, paths.themeDir)
            /\ last.outcome = "value" =>
                  Inside(last.path, paths.userDir) \/ Inside(last.path, paths.themeDir)

\* the override directory configured for type t leaves the project root
EscapesProject(t) == ~Inside(UserDirFor(t), ProjectRoot)

\* C7: an override directory configured to escape the project root is not
\* used: no resolution returns a path in it and no catalog entry lies in it.
C7_EscapingOverrideDirNotUsed ==
    \A t \in CallTypes :
        EscapesProject(t) /\ last.type = t =>
            /\ ~(last.path # NoPath /\ Inside(last.path, UserDirFor(t)))
            /\ \A i \in 1..Len(last.catalog) :
                  ~Inside(last.catalog[i].path, UserDirFor(t))

\* C8: two scans with the same arguments and no filesystem change in
\* between return the same (name, source, path) triples, in whatever order
\* the directories were enumerated each time.
C8_ScanIdempotent ==
    [][(/\ last.op \in CatalogOps
        /\ last.outcome = "value"
        /\ last'.op = last.op
        /\ last'.type = last.type
        /\ last'.filter = last.filter
        /\ last'.again
        /\ files' = files
        /\ dirs' = dirs)
          => /\ last'.outcome = "value"
             /\ Triples(last'.catalog) = Triples(last.catalog)]_vars

\* C8 witness: a scan repeated at once on a directory pair with several
\* entries
C8_Witness ==
    /\ last.op = "scanWithCascade"
    /\ last.again
    /\ Len(last.catalog) >= 2

\* the plain names each side offers to the latest scanWithCascade
ThemeFileSet == {n[1] : n \in ThemeListing}
UserFileSet == {n[1] : n \in UserListing}

\* C9 as stated: the catalog is the same whichever listing is merged first
\* and in whatever order each listing is enumerated.
C9_MergeOrderIrrelevant ==
    (last.op = "scanWithCascade" /\ last.outcome = "value") =>
        \A themeList \in Enumerations(ThemeFileSet), userList \in Enumerations(UserFileSet) :
            /\ Triples(UserPass(ThemePass(<<>>, themeList, ThemeDirOf(last.type)),
                                userList, UserDirFor(last.type)))
                  = Triples(last.catalog)
            /\ Triples(ThemePass(UserPass(<<>>, userList, UserDirFor(last.type)),
                                 themeList, ThemeDirOf(last.type)))
                  = Triples(last.catalog)

\* C9 amended: with the theme listing merged first and the user listing
\* second, the catalog's triples are the same in whatever order the entries
\* inside each listing are enumerated (flat scans and the asset tree alike).
C9_EnumerationOrderIrrelevant ==
    /\ (last.op = "scanWithCascade" /\ last.outcome = "value") =>
          \A themeList \in Enumerations(ThemeFileSet), userList \in Enumerations(UserFileSet) :
              LET r == scanWithCascade(Resolved, last.type, last.filter, themeList, userList)
              IN  ~r.threw /\ Triples(r.items) = Triples(last.catalog)
    /\ last.op = "getAvailableAssets" =>
          \A themeOrder \in TreeOrders, userOrder \in TreeOrders :
              Triples(getAvailableAssets(cfg, themeOrder, userOrder)) = Triples(last.catalog)

\* C9 witness: a scan of a theme directory with several entries, one of them
\* overridden by the user
C9_Witness ==
    /\ last.op = "scanWithCascade"
    /\ last.outcome = "value"
    /\ Cardinality(ThemeListing) >= 2
    /\ ThemeListing \cap UserListing # {}

CatalogNames == {last.catalog[i].name : i \in 1..Len(last.catalog)}
CatalogSources == {last.catalog[i].source : i \in 1..Len(last.catalog)}

\* C10: with the theme directory, the user directory or both absent, the
\* scan does not throw and returns exactly the entries of the directories
\* that exist: the empty catalog when both are absent.
C10_MissingDirNeverThrows ==
    last.op \in {"scanWithCascade", "getAvailableAssets"} =>
        LET noTheme == ThemeDirOf(last.type) \notin dirs
            noUser == UserDirFor(last.type) \notin dirs
        IN  /\ (noTheme \/ noUser) => last.outcome = "value"
            /\ noTheme /\ last.outcome = "value" =>
                  CatalogNames = UserListing /\ CatalogSources \subseteq {"user"}
            /\ noUser /\ last.outcome = "value" =>
                  CatalogNames = ThemeListing /\ CatalogSources \subseteq {"theme"}
            /\ noTheme /\ noUser => last.catalog = <<>>

\* C10 witness: the theme has no data directory, the user's holds site.js,
\* and the scan returned that one user entry
C10_Witness ==
    /\ last.op = "scanWithCascade"
    /\ last.type = "data"
    /\ ThemeDirOf("data") \notin dirs
    /\ UserDirFor("data") \in dirs
    /\ last.outcome = "value"
    /\ CatalogNames = {<<SiteJs>>}
    /\ CatalogSources = {"user"}

\* some directory of resource type t, on either side, may not be read
UnreadableIn(t) ==
    \E d \in unreadable : Inside(d, ThemeDirOf(t)) \/ Inside(d, UserDirFor(t))

\* C11: a directory that exists but cannot be read never makes catalog
\* building throw: the catalog is returned, the unreadable directory or
\* branch contributes nothing to it, and every entry of the directories and
\* branches that can be read is in it.
C11_UnreadableDirDegrades ==
    (last.op \in CatalogOps /\ UnreadableIn(last.type)) =>
        /\ last.outcome = "value"
        /\ CatalogNames = ThemeListing \cup UserListing

\* the relative paths the latest recursive scan returned
ListedPaths == {last.list[i] : i \in 1..Len(last.list)}

\* every file below directory d, at any depth, as its path relative to d
AllFilesBelow(d) ==
    {SubSeq(p, Len(d) + 1, Len(p)) : p \in {q \in files : Len(q) > Len(d) /\ IsPrefix(d, q)}}

\* C12: the recursive scan of a readable tree returns every file at any
\* depth exactly once, keyed by its path relative to the scanned root, and
\* the set of keys is the same whatever order the entries of each directory
\* are visited in; the asset catalog built from two such scans has exactly
\* those keys, each once.
C12_RecursiveScanComplete ==
    /\ (last.op = "scanDirectoryRecursive" /\ ~UnreadableIn("public")) =>
          /\ ListedPaths = AllFilesBelow(last.path)
          /\ Len(last.list) = Cardinality(ListedPaths)
          /\ \A order \in TreeOrders :
                LET again == scanDirectoryRecursive(last.path, last.path, order)
                IN  {again[i] : i \in 1..Len(again)} = ListedPaths
    /\ (last.op = "getAvailableAssets" /\ ~UnreadableIn("public")) =>
          /\ CatalogNames
                = AllFilesBelow(ThemeDirOf("public")) \cup AllFilesBelow(UserDirFor("public"))
          /\ Len(last.catalog) = Cardinality(CatalogNames)

\* C12 witness: the scanned tree holds a file at its top and one in a
\* subdirectory, and the scan returned both under their relative paths
C12_Witness ==
    /\ last.op = "scanDirectoryRecursive"
    /\ ListedPaths = {<<Favicon>>, <<Img, LogoPng>>}
    /\ Len(last.list) = 2
    /\ (last.path \o <<Img, LogoPng>>) \in files

\* the path the cascade rule gives a resource on the filesystem as it is now
CurrentPath(t, n) ==
    IF existsSync(UserPathOf(t, n)) THEN UserPathOf(t, n)
    ELSE IF existsSync(ThemePathOf(t, n)) THEN ThemePathOf(t, n)
    ELSE NoPath

\* C13: no component retains a resolution result across calls: whatever the
\* filesystem was when an earlier call ran, a later resolution of a resource
\* (by resolveResource, or of a layout by the alias the theme plugin
\* provides) returns the path the filesystem gives it at that later time.
C13_ResolutionReflectsCurrentFiles ==
    /\ last.op = "resolveResource" => last.path = CurrentPath(last.type, last.name)
    /\ last.op = "layoutAlias" =>
          last.path = CurrentPath("layouts", <<Append(last.name[1], ".njk")>>)

\* C14: with several callers running resolve and scan at the same time on an
\* unchanging filesystem, every finished call holds exactly the result the
\* same call returns when it runs alone.
C14_ConcurrentCallsIndependent ==
    \A c \in Callers :
        calls[c].pc = "done" =>
            /\ calls[c].op = "resolveResource" =>
                  LET alone == resolveResource(Resolved, calls[c].type, calls[c].name,
                                               calls[c].strict, NoMessage)
                  IN  /\ calls[c].outcome = alone.outcome
                      /\ calls[c].path = alone.path
                      /\ calls[c].source = alone.source
                      /\ calls[c].message = alone.message
            /\ calls[c].op = "scanWithCascade" =>
                  LET paths == buildPaths(Resolved, calls[c].type, <<>>)
                  IN  \A themeList \in Enumerations(scanDirectory(paths.themeDir, calls[c].filter).names),
                         userList \in Enumerations(scanDirectory(paths.userDir, calls[c].filter).names) :
                          Triples(calls[c].catalog)
                              = Triples(scanWithCascade(Resolved, calls[c].type,
                                                        calls[c].filter, themeList,
                                                        userList).items)

\* C14 witness: one caller has finished a scan with an override in it while
\* another is in the middle of a resolution
C14_Witness ==
    \E c, d \in Callers :
        /\ c # d
        /\ calls[c].pc = "done"
        /\ calls[c].op = "scanWithCascade"
        /\ \E i \in 1..Len(calls[c].catalog) : calls[c].catalog[i].source = "override"
        /\ calls[d].pc = "probeTheme"

EntryOps == EntryVariants

EntriesKeyed(key) == {i \in 1..Len(last.entries) : last.entries[i].key = key}

\* C15: the mapping returned by the feature entry resolver holds the key
\* "main" for every filesystem state and every configuration: the call
\* returns a mapping, and "main" is one of its keys.
C15_MainKeyAlwaysPresent ==
    last.op \in EntryOps =>
        /\ last.outcome = "value"
        /\ EntriesKeyed(MainKey) # {}

\* the user's feature named "main", as a folder with an index.js and as a
\* flat main.js, in a feature directory the process may read
FolderMainPath == UserDirFor("features") \o <<Main, IndexJs>>
FlatMainPath == UserDirFor("features") \o <<MainJs>>

FolderMainDiscovered ==
    /\ last.op \in {"getFeatureEntries", "getFeatureEntriesPageFeatures"}
    /\ last.outcome = "value"
    /\ Readable(UserDirFor("features"))
    /\ FolderMainPath \in files

FlatMainDiscovered ==
    /\ last.op = "getFeatureEntriesByName"
    /\ Readable(UserDirFor("features"))
    /\ FlatMainPath \in files

\* the mapping has exactly one entry under this key, with this path
OneEntryKeyed(key, path) ==
    /\ Cardinality(EntriesKeyed(key)) = 1
    /\ \A i \in EntriesKeyed(key) : last.entries[i].path = path

ValidateOps == {"validateTheme", "init"}

\* C17: in every result of validate, isValid is false exactly when the
\* errors list is non-empty, whatever the number of warnings.
C17_IsValidIffNoErrors ==
    last.op \in ValidateOps => (last.isValid <=> Len(last.errors) = 0)

\* C17 witness: a validation with warnings and no error, valid
C17_Witness ==
    /\ last.op = "validateTheme"
    /\ Len(last.warnings) >= 2
    /\ Len(last.errors) = 0
    /\ last.isValid

\* C18: when the theme package cannot be found, the result of validate is
\* exactly the one theme-not-found error, no warnings, no other finding,
\* and isValid is false.
C18_ThemeMissingShortCircuits ==
    (last.op \in ValidateOps /\ ~existsSync(ThemeRoot)) =>
        /\ last.errors = <<Finding("themeNotFound", ThemeRoot)>>
        /\ last.warnings = <<>>
        /\ ~last.isValid

\* C18 witness: the theme package is missing, and so are Nunjucks and the
\* main entry that later checks would have reported
C18_Witness ==
    /\ last.op = "validateTheme"
    /\ ~existsSync(ThemeRoot)
    /\ ~existsSync(NunjucksDir)
    /\ ~existsSync(MainEntry)
    /\ Len(last.errors) = 1

\* something validateTheme reports as an error is wrong with the installation
InstallationBroken ==
    \/ ~existsSync(ThemeRoot)
    \/ \E k \in {"layouts", "styles", "scripts"} : ~existsSync(ThemeDirOf(k))
    \/ ~existsSync(NunjucksDir)

\* C19 as stated: initialization ends the process exactly when the theme
\* package is missing, and for no other validation error and no warning.
C19_OnlyMissingThemeIsFatal ==
    last.op = "init" => (last.outcome = "exit" <=> ~existsSync(ThemeRoot))

\* C19 amended: initialization ends the process exactly when validation
\* reports an error (theme package, a required theme directory or Nunjucks
\* missing), and never for warnings alone.
C19_AnyErrorIsFatal ==
    last.op = "init" =>
        /\ last.outcome = "exit" <=> InstallationBroken
        /\ last.outcome = "exit" <=> Len(last.errors) > 0

\* C19 witness: initialization went on with warnings and no error
C19_Witness ==
    /\ last.op = "init"
    /\ last.outcome = "value"
    /\ Len(last.warnings) > 0

\* C20: every operation of the cascade layer only reads the filesystem: no
\* call (path computation, resolve, scan, data-cascade helper, validate)
\* leaves the files, their contents or the directories other than it found
\* them.
C20_CallsOnlyRead ==
    [][~Idle' => (files' = files /\ dirs' = dirs /\ contents' = contents)]_vars

\* the user and the theme search roots the loader was configured with: the
\* theme roots are the last four
ThemeRootsOf(ld) == {ld.searchPaths[i] : i \in (Len(ld.searchPaths) - 3)..Len(ld.searchPaths)}
UserRootsOf(ld) == {ld.searchPaths[i] : i \in 1..(Len(ld.searchPaths) - 4)}

\* C21: a template name with the prefix "@theme/" is resolved against the
\* theme package, bypassing the cascade: whenever the theme holds the file the
\* remaining name points at, that file is what the loader returns, whatever
\* the user roots hold.
C21_ThemePrefixBypassesCascade ==
    (last.op = "getSource" /\ HasThemePrefix(last.name)
        /\ PathJoin(ThemeRoot, Tail(last.name)) \in files)
        => (last.outcome = "value" /\ last.path = PathJoin(ThemeRoot, Tail(last.name)))

\* C22: in the search-root list every user root comes before every theme
\* root, and a name without the prefix that is found in a user root and in a
\* theme root is loaded from a user root.
C22_UserRootsBeforeThemeRoots ==
    /\ loader.configured =>
          \A i, j \in DOMAIN loader.searchPaths :
             (loader.searchPaths[i] \in UserRootsOf(loader)
                 /\ loader.searchPaths[j] \in ThemeRootsOf(loader)) => i < j
    /\ (last.op = "getSource" /\ ~HasThemePrefix(last.name)
          /\ (\E u \in UserRootsOf(loader) : PathJoin(u, last.name) \in files)
          /\ (\E t \in ThemeRootsOf(loader) : PathJoin(t, last.name) \in files))
          => /\ last.outcome = "value"
             /\ \E u \in UserRootsOf(loader) : last.path = PathJoin(u, last.name)
             /\ ~Inside(last.path, ThemeRoot)

\* C22 witness: home.njk is in the user's layouts directory and in the
\* theme's, and the loader returns the user's.
C22_Witness ==
    /\ last.op = "getSource" /\ last.name = <<HomeNjk>>
    /\ ThemeRoot \o <<Layouts, HomeNjk>> \in files
    /\ DefaultUserDir("layouts") \o <<HomeNjk>> \in files
    /\ last.path = DefaultUserDir("layouts") \o <<HomeNjk>>

\* the override directories by the stated priority: the user's overridePaths
\* when any are given, else the theme's defaults, else the framework's
ChosenOverridePaths ==
    IF DOMAIN cfg # {} THEN cfg
    ELSE IF DOMAIN ThemeMetadata.defaultOverridePaths # {}
         THEN ThemeMetadata.defaultOverridePaths
         ELSE DEFAULT_OVERRIDE_PATHS

AllEntryOps == AllEntryVariants

\* the path an entry mapping holds under a key
EntryPath(entries, key) ==
    LET i == CHOOSE i \in DOMAIN entries : entries[i].key = key IN entries[i].path

\* C23: the override directories are chosen by strict priority (the user's
\* overridePaths, else the theme's defaults, else the framework's) and every
\* consumer uses them: the fixed main entry an entry resolver returns lies in
\* the scripts directory chosen this way.
C23_ConsumersUseChosenPaths ==
    (last.op \in AllEntryOps /\ last.outcome = "value"
        /\ "scripts" \in DOMAIN ChosenOverridePaths)
        => /\ \E i \in DOMAIN last.entries : last.entries[i].key = MainKey
           /\ EntryPath(last.entries, MainKey)
                 = PathJoin(ProjectRoot, ChosenOverridePaths["scripts"] \o <<MainJs>>)

\* C24: scan and resolve agree on features: for every feature of the catalog
\* getAvailableFeatures returns, featureExists is true and resolveFeaturePath
\* returns the path of the catalog entry, on the same filesystem and
\* configuration.
C24_ScanAndResolveAgreeOnFeatures ==
    (last.op = "getAvailableFeatures" /\ last.outcome = "value")
        => \A i \in DOMAIN last.catalog :
              LET feature == last.catalog[i]
                  r == resolveFeaturePath(feature.name[1], ThemeMetadata, cfg)
              IN  /\ featureExists(feature.name[1], ThemeMetadata, cfg)
                  /\ r.outcome = "value"
                  /\ r.path = feature.path

\* C25: when the resource is in at least one of its two locations at every
\* instant of a resolve call, the call does not report NotFound (null or a
\* strict-mode throw), even when another process changes the filesystem
\* between the check of the user path and the check of the theme path.
C25_NoSpuriousNotFound ==
    \A c \in Callers :
        (calls[c].pc = "done" /\ calls[c].op = "resolveResource")
            => calls[c].outcome = "value"

\* the consumers that take their directory from the resolved override paths
PathConsumers == AllEntryOps \cup {"getAvailableFeatures", "themePlugin"}

\* C26: once the override paths are resolved, every resource type has a
\* defined override directory, also when the user gave overridePaths for some
\* types only, and no consumer computes a path from an undefined directory
\* (which path.join rejects by throwing).
C26_EveryResourceTypeHasDirectory ==
    last.op \in PathConsumers
        => /\ \A k \in ResourceKeys : Prop(Resolved, k) # Undefined
           /\ last.outcome # "throw"

\* init has been called and destroy has not been called since
InitInForce == ~page.currentConfig.isNull

\* C27: once init() of the code-highlighting feature has been called, a
\* further init() before destroy() has no effect: the configuration of the
\* first call stays, nothing more is scheduled or decorated, and every code
\* block carries at most one copy button, also while the first call is still
\* waiting for DOMContentLoaded.
C27_SecondInitHasNoEffect ==
    /\ [](\A pre \in CodeBlocks : page.blocks[pre].buttons <= 1)
    /\ [][(InitInForce /\ last'.op = "codeHighlighting.init") => page' = page]_vars

\* C28: from the return of destroy() until the next init(), no code block
\* carries a copy button or line-number markup of the feature, and no
\* initialization deferred by an earlier init() runs, also when destroy() was
\* called while that init() was waiting for DOMContentLoaded.
C28_DestroyLeavesNothingBehind ==
    ~InitInForce
        => /\ \A pre \in CodeBlocks :
                 /\ page.blocks[pre].buttons = 0
                 /\ ~page.blocks[pre].lineNumbers
                 /\ page.blocks[pre].rows = 0
           /\ last.op = "DOMContentLoaded" => last.list = <<>>

\* C29: with the default optimization set, runOptimizations executes the
\* built-in steps in the order of the legacy closeBundle pipeline:
\* preserveNonHtml, purgeCSS, criticalCSS, minifyHTML, validateLinks.
C29_DefaultOrderMatchesLegacy ==
    (last.op = "runOptimizations" /\ build.optimizations = DefaultOptimizations
        /\ build.dirs.temp /\ build.dirs.output)
        => /\ last.outcome = "value"
           /\ last.list = legacyCloseBundle(build.optimizations).ran
           /\ last.list = << BuiltIn(<<"preserve", "non", "html", "files">>),
                             BuiltIn(<<"purge", "css", "files">>),
                             BuiltIn(<<"generate", "critical", "css">>),
                             BuiltIn(<<"minify", "html">>),
                             BuiltIn(<<"validate", "links">>) >>

\* a reference of a page that points at nothing in the built site
BrokenRef(p, r) ==
    LET target ==
            IF r.ref.root THEN PathJoin(OutputDir, r.ref.path)
            ELSE PathJoin(Parent(p), r.ref.path)
    IN  /\ r \in build.html[p]
        /\ IF r.tag = "a"
           THEN ~SkipsLink(r.ref) /\ ~existsSync(target)
                   /\ ~existsSync(PathJoin(target, <<IndexHtml>>))
           ELSE ~SkipsImage(r.ref) /\ ~existsSync(target)

\* C30: without throwOnError validateLinks never throws: it returns
\* {valid, errors} with valid true exactly when errors is empty, and every
\* broken internal link, missing image and unparseable file is an entry of
\* errors.
C30_ValidateLinksNeverThrows ==
    (last.op = "validateLinks" /\ ~last.strict)
        => /\ last.outcome = "value"
           /\ last.isValid <=> last.errors = <<>>
           /\ \A p \in HtmlFiles :
                 /\ p \in build.unreadableHtml
                       => \E i \in DOMAIN last.errors :
                             /\ last.errors[i].file = RelativeTo(OutputDir, p)
                             /\ last.errors[i].type = "parse-error"
                 /\ \A r \in RefUniverse :
                       (p \notin build.unreadableHtml /\ BrokenRef(p, r))
                           => \E i \in DOMAIN last.errors :
                                 /\ last.errors[i].file = RelativeTo(OutputDir, p)
                                 /\ last.errors[i].target = r.ref

====
